---- MODULE Spec2Model ----
(***************************************************************************)
(* Model of the lottie player controller: the worker pool                  *)
(* (src/src/lib/worker-pool.ts), the player registry (the player module in *)
(* src/unnamed/part_000, lines 304-812), the player object                 *)
(* (src/src/lib/Player.ts) and the render worker's message handler         *)
(* (src/src/worker.ts).                                                    *)
(***************************************************************************)
EXTENDS Integers, Sequences, FiniteSets, TLC

\* ---------------------------------------------------------------- bounds
MaxAllocs == 5
MaxSendAllocs == 2
MaxRequests == 2
MaxMaxWorkers == 2
MaxPlayersPerWorker == 2
NumIds == 2
MaxPlayers == 3
MaxWidth == 2
MaxTime == 3
FrameTime == 1
MaxDelta == 2
MaxRenderPlayers == 2
MaxElapsed == 6
MaxFrameTime == 3
MaxTotalFrames == 3
NumStaleIds == 3
MaxStalePlayers == 4
MaxStaleTicks == 1
MaxDupes == 1
MaxRounds == 1
MaxResumeTime == 5
MaxLegacyPlayers == 2
MaxDisposes == 2
MaxPaints == 7

\* ------------------------------------------------------ program constants
maxSeq == 1000000
DefaultMaxWorkers == 4
DefaultPlayersPerWorker == 5
DefaultCacheFrames == FALSE
TimeOrigin == 100

VARIABLES
    config,       \* getConfig(): [maxWorkers, playersPerWorker]
    workerPool,   \* sequence of WorkerInstance ids, in array order
    workerId,     \* next WorkerInstance id
    refs,         \* WorkerInstance.refs
    worker,       \* WorkerInstance.worker is set (the process is attached)
    deferred,     \* state of WorkerInstance.deferred
    seq,          \* WorkerInstance.seq
    requests,     \* WorkerInstance.requests: set of [seq, rid]
    futures,      \* every promise returned by send, indexed by request id
    urlLoaded,    \* workerUrlLoader has resolved
    proc,         \* the Worker process created for the instance
    listening,    \* attachWorker's startup listeners are installed
    terminated,   \* number of Worker.terminate() calls on the process
    posted,       \* messages posted to the process, in postMessage order
    handled,      \* request ids the process has taken from its inbox
    faulted,      \* request ids whose handling raised an error event
    clientRefs,   \* references handed out by allocWorker to a direct caller
    allocCount,   \* number of allocWorker calls so far
    releaseCount, \* number of releaseWorker calls so far
    registry,     \* registry: id -> registry item (0: no entry)
    items,        \* every PlayerRegistryItem created, in creation order
    players,      \* every Player created, in creation order
    maxPlayerRender, \* maxPlayerRender: the paints left, -1 for no limit
    paused,       \* the module's paused flag
    rafId,        \* rafId: 0, or 1 for the handle of the last requestAnimationFrame
    rafPending,   \* the callback of the handle in rafId has not run yet
    orphans,      \* pending callbacks whose handle rafId no longer holds
    prevTime,     \* prevTime
    dispatches,   \* render dispatches: the requests Promise.all waits for
    now,          \* the clock of requestAnimationFrame
    call,         \* a call of toFrameRequest: its arguments and its result
    dupes,        \* number of messages received that repeat an answered seq
    rounds,       \* number of runs of answered requests taken in one step
    legacy        \* the state of the earlier player module: its players,
                  \* its table of instances and its workers with their queues

poolVars == <<workerPool, workerId, refs, worker, deferred, seq, requests,
              futures, proc, listening, terminated, posted>>
regVars == <<registry, items, players, maxPlayerRender>>
loopVars == <<paused, rafId, rafPending, orphans, prevTime, dispatches>>
vars == <<config, poolVars, urlLoaded, handled, faulted, clientRefs, allocCount,
          releaseCount, regVars, loopVars, now, call, dupes, rounds, legacy>>

RequestNames == {"create", "render", "dispose"}

terminateErr == "ETERMINATE"
notMountedErr == "Worker is not mounted"

\* ------------------------------------------------------------ pool state
PoolState ==
    [workerPool |-> workerPool, workerId |-> workerId, refs |-> refs,
     worker |-> worker, deferred |-> deferred, seq |-> seq,
     requests |-> requests, futures |-> futures, proc |-> proc,
     listening |-> listening, terminated |-> terminated, posted |-> posted]

SetPool(S) ==
    /\ workerPool' = S.workerPool
    /\ workerId' = S.workerId
    /\ refs' = S.refs
    /\ worker' = S.worker
    /\ deferred' = S.deferred
    /\ seq' = S.seq
    /\ requests' = S.requests
    /\ futures' = S.futures
    /\ proc' = S.proc
    /\ listening' = S.listening
    /\ terminated' = S.terminated
    /\ posted' = S.posted

InPool(S, w) == \E i \in 1..Len(S.workerPool) : S.workerPool[i] = w

Instances == DOMAIN refs

RemoveAt(s, i) == SubSeq(s, 1, i - 1) \o SubSeq(s, i + 1, Len(s))

\* Deferred<T>.resolve / reject: a promise settles once
DeferredResolve(d) == IF d = "pending" THEN "resolved" ELSE d

DeferredReject(d) == IF d = "pending" THEN "rejected" ELSE d

\* variant: attach installs the process without resolving the promise
attach_NoResolve(S, w) ==
    [S EXCEPT !.worker[w] = TRUE]

\* WorkerInstance.attach
attach(S, w) ==
    [S EXCEPT !.worker[w] = TRUE,
              !.deferred[w] = DeferredResolve(@)]

\* WorkerInstance.fail
fail(S, w) ==
    [S EXCEPT !.deferred[w] = DeferredReject(@)]

\* variant: dispose rejects only the newest pending request
DisposeRejected_NewestOnly(S, w) ==
    {r.rid : r \in {q \in S.requests[w] : \A o \in S.requests[w] : o.rid <= q.rid}}

\* the requests of a worker's table that dispose rejects
DisposeRejected(S, w) == {r.rid : r \in S.requests[w]}

\* WorkerInstance.dispose
dispose(S, w) ==
    LET rej == DisposeRejected(S, w)
        S1 == [S EXCEPT
                 !.futures = [f \in DOMAIN S.futures |->
                     IF f \in rej /\ S.futures[f].state = "pending"
                     THEN [S.futures[f] EXCEPT !.state = "rejected",
                                               !.error = terminateErr,
                                               !.calls = @ + 1]
                     ELSE IF f \in rej
                          THEN [S.futures[f] EXCEPT !.calls = @ + 1]
                          ELSE S.futures[f]],
                 !.requests[w] = IF S.requests[w] = {} THEN @ ELSE {}]
    IN IF S1.worker[w]
       THEN [S1 EXCEPT !.terminated[w] = @ + 1, !.worker[w] = FALSE]
       ELSE fail(S1, w)

\* releaseWorker
releaseWorker(S, w) ==
    LET S1 == [S EXCEPT !.refs[w] = @ - 1]
    IN IF S1.refs[w] <= 0
       THEN LET S2 == dispose(S1, w)
                ix == {i \in 1..Len(S2.workerPool) : S2.workerPool[i] = w}
            IN IF ix # {}
               THEN [S2 EXCEPT !.workerPool = RemoveAt(@, CHOOSE i \in ix : TRUE)]
               ELSE S2
       ELSE S1

\* the loop of allocWorker: index of the first worker below its capacity, or 0
FirstFree(S) ==
    LET free == {i \in 1..Len(S.workerPool) :
                    S.refs[S.workerPool[i]] < config.playersPerWorker}
    IN IF free = {} THEN 0
       ELSE CHOOSE i \in free : \A j \in free : i <= j

\* variant: the scan keeps the first worker instead of the least loaded one
MinPlayersWorker_First(S) ==
    IF Len(S.workerPool) = 0 THEN 0 ELSE S.workerPool[1]

\* the loop of allocWorker: minPlayersWorker after a full scan, or 0
MinPlayersWorker(S) ==
    LET n == Len(S.workerPool)
        best == {i \in 1..n :
                    /\ \A j \in 1..n : S.refs[S.workerPool[j]] >= S.refs[S.workerPool[i]]
                    /\ \A j \in 1..(i - 1) : S.refs[S.workerPool[j]] > S.refs[S.workerPool[i]]}
    IN IF n = 0 THEN 0 ELSE S.workerPool[CHOOSE i \in best : TRUE]

\* new WorkerInstance(); workerPool.push(worker); attachWorker(worker)
NewInstance(S) ==
    LET w == S.workerId
    IN [S EXCEPT
          !.workerId = w + 1,
          !.workerPool = Append(@, w),
          !.refs = @ @@ (w :> 0),
          !.worker = @ @@ (w :> FALSE),
          !.deferred = @ @@ (w :> "pending"),
          !.seq = @ @@ (w :> 0),
          !.requests = @ @@ (w :> {}),
          !.proc = @ @@ (w :> IF urlLoaded THEN "starting" ELSE "none"),
          !.listening = @ @@ (w :> urlLoaded),
          !.terminated = @ @@ (w :> 0),
          !.posted = @ @@ (w :> <<>>)]

\* variant: no overflow onto an existing worker, a new instance every time
AllocChoice_NoCap(S) ==
    LET free == FirstFree(S)
    IN IF free # 0 THEN S.workerPool[free] ELSE 0

\* variant: overflow onto an existing worker without looking at the pool size
AllocChoice_EarlyOverflow(S) ==
    LET free == FirstFree(S)
        minw == MinPlayersWorker(S)
    IN IF free # 0 THEN S.workerPool[free]
       ELSE IF minw # 0 THEN minw
       ELSE 0

\* the worker allocWorker settles on: an instance id, or 0 for a new instance
AllocChoice(S) ==
    LET free == FirstFree(S)
        minw == MinPlayersWorker(S)
    IN IF free # 0 THEN S.workerPool[free]
       ELSE IF minw # 0 /\ Len(S.workerPool) >= config.maxWorkers THEN minw
       ELSE 0

\* allocWorker: the pool state afterwards
allocWorker(S) ==
    LET c == AllocChoice(S)
        S1 == IF c = 0 THEN NewInstance(S) ELSE S
        w == IF c = 0 THEN S.workerId ELSE c
    IN [S1 EXCEPT !.refs[w] = @ + 1]

\* the instance whose promise allocWorker returns
AllocResult(S) ==
    IF AllocChoice(S) = 0 THEN S.workerId ELSE AllocChoice(S)

\* requests.set(seq, resp)
RequestsSet(tbl, sq, rid) ==
    {r \in tbl : r.seq # sq} \cup {[seq |-> sq, rid |-> rid]}

\* variant: send posts the request whether or not the process is attached
send_Unchecked(S, w, name, owner) ==
    LET sq == (S.seq[w] + 1) % maxSeq
        rid == Len(S.futures) + 1
    IN [S EXCEPT
          !.seq[w] = sq,
          !.requests[w] = RequestsSet(@, sq, rid),
          !.posted[w] = Append(@, [seq |-> sq, rid |-> rid, name |-> name]),
          !.futures = Append(@, [w |-> w, seq |-> sq, name |-> name, owner |-> owner,
                                 early |-> S.proc[w] # "running",
                                 state |-> "pending", value |-> 0, error |-> "", calls |-> 0])]

\* variant: send puts the request in front of the ones already posted
send_Lifo(S, w, name, owner) ==
    LET sq == (S.seq[w] + 1) % maxSeq
        rid == Len(S.futures) + 1
        fut == [w |-> w, seq |-> sq, name |-> name, owner |-> owner,
                early |-> S.proc[w] # "running",
                state |-> "pending", value |-> 0, error |-> "", calls |-> 0]
        S1 == [S EXCEPT !.seq[w] = sq]
    IN IF S1.worker[w]
       THEN [S1 EXCEPT
               !.requests[w] = RequestsSet(@, sq, rid),
               !.posted[w] = <<[seq |-> sq, rid |-> rid, name |-> name]>> \o @,
               !.futures = Append(@, fut)]
       ELSE [S1 EXCEPT
               !.futures = Append(@, [fut EXCEPT !.state = "rejected",
                                                 !.error = notMountedErr,
                                                 !.calls = 1])]

\* WorkerInstance.send; the new request gets the id Len(futures) + 1
send(S, w, name, owner) ==
    LET sq == (S.seq[w] + 1) % maxSeq
        rid == Len(S.futures) + 1
        fut == [w |-> w, seq |-> sq, name |-> name, owner |-> owner,
                early |-> S.proc[w] # "running",
                state |-> "pending", value |-> 0, error |-> "", calls |-> 0]
        S1 == [S EXCEPT !.seq[w] = sq]
    IN IF S1.worker[w]
       THEN [S1 EXCEPT
               !.requests[w] = RequestsSet(@, sq, rid),
               !.posted[w] = Append(@, [seq |-> sq, rid |-> rid, name |-> name]),
               !.futures = Append(@, fut)]
       ELSE [S1 EXCEPT
               !.futures = Append(@, [fut EXCEPT !.state = "rejected",
                                                 !.error = notMountedErr,
                                                 !.calls = 1])]

\* variant: onMessage takes a pending entry without comparing its seq
RequestsGet_AnySeq(tbl, sq) == tbl

\* this.requests.get(seq) in onMessage: the matching table entries
RequestsGet(tbl, sq) == {r \in tbl : r.seq = sq}

\* variant: onMessage resolves the entry and leaves it in the table
onMessage_NoDelete(S, w, sq, payload) ==
    LET resp == RequestsGet(S.requests[w], sq)
    IN IF resp # {}
       THEN LET r == CHOOSE r \in resp : TRUE
            IN [S EXCEPT
                  !.futures[r.rid] =
                      IF @.state = "pending"
                      THEN [@ EXCEPT !.state = "resolved", !.value = payload,
                                     !.calls = @ + 1]
                      ELSE [@ EXCEPT !.calls = @ + 1]]
       ELSE S

\* WorkerInstance.onMessage for a message with a seq field; calls counts the
\* resolve and reject calls made on the request's deferred
onMessage(S, w, sq, payload) ==
    LET resp == RequestsGet(S.requests[w], sq)
    IN IF resp # {}
       THEN LET r == CHOOSE r \in resp : TRUE
            IN [S EXCEPT
                  !.requests[w] = @ \ {r},
                  !.futures[r.rid] =
                      IF @.state = "pending"
                      THEN [@ EXCEPT !.state = "resolved", !.value = payload,
                                     !.calls = @ + 1]
                      ELSE [@ EXCEPT !.calls = @ + 1]]
       ELSE S

\* ------------------------------------------------------------- registry
Ids == 1..NumIds

\* the keys of the registry: the ids above and id 0, whose movie has one frame
MovieIds == 0..NumIds

\* the movie the application plays under an id: its number of frames, which
\* the worker reports as totalFrames (two frames for id 1, three for id 2, ...)
MovieFrames(id) == id + 1

Widths == 1..MaxWidth

RegState == [registry |-> registry, items |-> items, players |-> players,
             maxPlayerRender |-> maxPlayerRender]

SetReg(R) ==
    /\ registry' = R.registry
    /\ items' = R.items
    /\ players' = R.players
    /\ maxPlayerRender' = R.maxPlayerRender

LoopState ==
    [paused |-> paused, rafId |-> rafId, rafPending |-> rafPending,
     orphans |-> orphans, prevTime |-> prevTime, dispatches |-> dispatches]

SetLoop(L) ==
    /\ paused' = L.paused
    /\ rafId' = L.rafId
    /\ rafPending' = L.rafPending
    /\ orphans' = L.orphans
    /\ prevTime' = L.prevTime
    /\ dispatches' = L.dispatches

\* scheduleRender
scheduleRender(L) ==
    IF L.rafId = 0 /\ ~L.paused
    THEN [L EXCEPT !.rafId = 1, !.rafPending = TRUE]
    ELSE L

\* the controller's state: the pool, the registry, the render loop and the two
\* call counters
State ==
    [S |-> PoolState, R |-> RegState, L |-> LoopState,
     allocs |-> allocCount, releases |-> releaseCount]

SeqRange(s) == {s[i] : i \in 1..Len(s)}

\* the notifications whose number is recorded per player; 'error' is not an
\* event of PlayerEventMap and no code emits it
NoEvents == [mount |-> 0, rendered |-> 0, end |-> 0, error |-> 0]

\* the listener the application has added to a player for 'rendered' and
\* 'end': it disposes the player target (0: no listener); fired records that
\* it has done so
NoListener == [target |-> 0, fired |-> FALSE]

\* Player.emit(event), for the recorded events: the count, where 2 stands for
\* "more than once"
emit(P, p, event) ==
    [P EXCEPT ![p].emitted[event] = IF @ < 2 THEN @ + 1 ELSE @]

\* one step of the stable sort: p goes behind every player at least as wide
InsertByWidth(P, sorted, p) ==
    LET k == Cardinality({i \in 1..Len(sorted) : P[sorted[i]].width >= P[p].width})
    IN SubSeq(sorted, 1, k) \o <<p>> \o SubSeq(sorted, k + 1, Len(sorted))

\* players.sort((a, b) => b.width - a.width): stable, widest first
RECURSIVE SortByWidth(_, _)
SortByWidth(P, list) ==
    IF list = <<>> THEN <<>>
    ELSE InsertByWidth(P, SortByWidth(P, SubSeq(list, 1, Len(list) - 1)), list[Len(list)])

\* orderInstances
orderInstances(R, id) ==
    LET k == R.registry[id]
    IN IF k # 0 /\ Len(R.items[k].players) > 1
       THEN [R EXCEPT !.items[k].players = SortByWidth(R.players, @)]
       ELSE R

\* variant: only the first player of the list is mounted
mountPlayers_First(R, list, totalFrames) ==
    [R EXCEPT !.players = [q \in DOMAIN R.players |->
        IF list # <<>> /\ q = list[1] /\ R.players[q].totalFrames = -1
        THEN [emit(R.players, q, "mount")[q] EXCEPT !.totalFrames = totalFrames]
        ELSE R.players[q]]]

\* Player.mount, for every player of a list
mountPlayers(R, list, totalFrames) ==
    [R EXCEPT !.players = [q \in DOMAIN R.players |->
        IF q \in SeqRange(list) /\ R.players[q].totalFrames = -1
        THEN [emit(R.players, q, "mount")[q] EXCEPT !.totalFrames = totalFrames]
        ELSE R.players[q]]]

\* variant: a player that joins an existing group takes a worker reference too
registerPlayer_AllocOnJoin(St, p) ==
    LET id == St.R.players[p].id
        k == St.R.registry[id]
    IN IF k # 0
       THEN LET R1 == [St.R EXCEPT !.items[k].players = Append(@, p)]
                R2 == orderInstances(R1, id)
            IN [St EXCEPT !.R = IF R2.items[k].worker # 0
                                THEN mountPlayers(R2, <<p>>, R2.items[k].totalFrames)
                                ELSE R2,
                          !.L = IF R2.items[k].worker # 0 THEN scheduleRender(@) ELSE @,
                          !.S = allocWorker(St.S),
                          !.allocs = @ + 1]
       ELSE LET item == [id |-> id, totalFrames |-> -1, players |-> <<p>>,
                         worker |-> 0, movie |-> "pending", stage |-> "loading",
                         frame |-> 0, start |-> 0, frameCache |-> {},
                         alloc |-> AllocResult(St.S)]
            IN [St EXCEPT !.R.items = Append(@, item),
                          !.R.registry[id] = Len(St.R.items) + 1,
                          !.S = allocWorker(St.S),
                          !.allocs = @ + 1]

\* registerPlayer, up to the promises it leaves pending
registerPlayer(St, p) ==
    LET id == St.R.players[p].id
        k == St.R.registry[id]
    IN IF k # 0
       THEN LET R1 == [St.R EXCEPT !.items[k].players = Append(@, p)]
                R2 == orderInstances(R1, id)
            IN [St EXCEPT !.R = IF R2.items[k].worker # 0
                                THEN mountPlayers(R2, <<p>>, R2.items[k].totalFrames)
                                ELSE R2,
                          !.L = IF R2.items[k].worker # 0 THEN scheduleRender(@) ELSE @]
       ELSE LET item == [id |-> id, totalFrames |-> -1, players |-> <<p>>,
                         worker |-> 0, movie |-> "pending", stage |-> "loading",
                         frame |-> 0, start |-> 0, frameCache |-> {},
                         alloc |-> AllocResult(St.S)]
            IN [St EXCEPT !.R.items = Append(@, item),
                          !.R.registry[id] = Len(St.R.items) + 1,
                          !.S = allocWorker(St.S),
                          !.allocs = @ + 1]

\* variant: the entry of a group that became empty is kept
unregisterPlayer_KeepEmpty(St, p) ==
    LET id == St.R.players[p].id
        k == St.R.registry[id]
    IN IF k = 0 THEN St
       ELSE [St EXCEPT !.R.items[k].players = SelectSeq(@, LAMBDA q : q # p)]

\* unregisterPlayer
unregisterPlayer(St, p) ==
    LET id == St.R.players[p].id
        k == St.R.registry[id]
    IN IF k = 0 THEN St
       ELSE LET rest == SelectSeq(St.R.items[k].players, LAMBDA q : q # p)
                St1 == [St EXCEPT !.R.items[k].players = rest]
            IN IF rest # <<>> THEN St1
               ELSE LET St2 == [St1 EXCEPT !.R.registry[id] = 0]
                    IN IF St.R.items[k].worker # 0
                       THEN [St2 EXCEPT !.S = releaseWorker(@, St.R.items[k].worker),
                                        !.releases = @ + 1,
                                        !.R.items[k].stage = "released"]
                       ELSE St2

\* variant: Player.dispose leaves totalFrames as it is
disposeFields_KeepMounted(pl) ==
    [pl EXCEPT !.disposed = TRUE, !.frame = -1, !.listener = NoListener]

\* the assignments of Player.dispose
disposeFields(pl) ==
    [pl EXCEPT !.disposed = TRUE, !.frame = -1, !.totalFrames = -1,
               !.listener = NoListener]

\* Player.dispose, with createPlayer's 'dispose' listener
playerDispose(St, p) ==
    LET St1 == [St EXCEPT !.R.players[p] = disposeFields(@)]
        St2 == IF St.R.players[p].hooked THEN unregisterPlayer(St1, p) ELSE St1
    IN [St2 EXCEPT !.R.players[p].hooked = FALSE]

\* item.players.forEach(item => item.dispose()) over the array as it was when
\* the loop started: unregisterPlayer replaces item.players by a filtered copy
RECURSIVE disposeEach(_, _, _)
disposeEach(St, list, i) ==
    IF i > Len(list) THEN St
    ELSE disposeEach(playerDispose(St, list[i]), list, i + 1)

\* disposePlayer(id)
disposePlayerById(St, id) ==
    LET k == St.R.registry[id]
    IN IF k = 0 THEN St ELSE disposeEach(St, St.R.items[k].players, 1)

\* Player.resize, with createPlayer's 'resize' listener
playerResize(R, p, width) ==
    LET R1 == [R EXCEPT !.players[p].width = width]
    IN IF R1.players[p].totalFrames # -1 /\ R1.players[p].hooked
       THEN orderInstances(R1, R1.players[p].id)
       ELSE R1

\* Promise.all([allocWorker(), getMovie(movie)]) of item k has resolved
ReadyToCreate(St, k) ==
    /\ St.R.items[k].stage = "loading"
    /\ St.R.items[k].movie = "loaded"
    /\ St.S.deferred[St.R.items[k].alloc] = "resolved"

\* worker.send('create', { id, data }) for item k
sendCreate(St, k) ==
    [St EXCEPT !.S = send(@, St.R.items[k].alloc, "create", k),
               !.R.items[k].stage = "creating"]

\* the callbacks that run once the promise of instance w is settled: the
\* items whose Promise.all is now resolved send their create request, in
\* the order they were registered
RECURSIVE SendCreates(_, _, _)
SendCreates(St, w, k) ==
    IF k > Len(St.R.items) THEN St
    ELSE SendCreates(IF St.R.items[k].alloc = w /\ ReadyToCreate(St, k)
                     THEN sendCreate(St, k) ELSE St,
                     w, k + 1)

\* the callback of worker.send('create', ...) in registerPlayer, for request f
createResponse(St, f) ==
    LET k == St.S.futures[f].owner
        w == St.S.futures[f].w
        id == St.R.items[k].id
    IN IF St.R.registry[id] = k
       THEN LET R1 == [St.R EXCEPT !.items[k].worker = w,
                                   !.items[k].totalFrames = MovieFrames(id),
                                   !.items[k].stage = "mounted"]
            IN [St EXCEPT !.R = mountPlayers(R1, R1.items[k].players, MovieFrames(id)),
                          !.L = scheduleRender(@)]
       ELSE [St EXCEPT !.S = releaseWorker(@, w),
                       !.releases = @ + 1,
                       !.R.items[k].stage = "released"]

\* ---------------------------------------------------------- render loop

\* Player.lastFrame
lastFrame(pl) == pl.totalFrames - 1

\* isPlaying
isPlaying(pl) ==
    IF pl.paused THEN FALSE ELSE pl.loop \/ pl.frame < pl.totalFrames - 1

\* variant: isFinished never holds
isFinished_Never(pl) == FALSE

\* isFinished
isFinished(pl) == ~pl.loop /\ pl.frame = lastFrame(pl)

\* variant: every mounted player is to be painted
shouldRenderPlayer_Always(pl, frame) == pl.totalFrames # -1

\* shouldRenderPlayer
shouldRenderPlayer(pl, frame) == pl.totalFrames # -1 /\ pl.frame # frame

\* shouldRenderFrame
shouldRenderFrame(R, id, frame) ==
    LET k == R.registry[id]
    IN /\ k # 0
       /\ \E i \in 1..Len(R.items[k].players) :
             shouldRenderPlayer(R.players[R.items[k].players[i]], frame)

\* Player.pause; createPlayer installs no 'pause' listener
playerPause(P, p) ==
    IF ~P[p].paused THEN [P EXCEPT ![p].paused = TRUE] ELSE P

\* Player.play, with createPlayer's 'play' listener
playerPlay(St, p) ==
    LET pl == St.R.players[p]
        loopEnd == pl.loop /\ pl.frame = lastFrame(pl)
        shouldPlay == pl.paused \/ loopEnd
        St1 == [St EXCEPT !.R.players[p].paused = FALSE,
                          !.R.players[p].frame = IF loopEnd THEN 0 ELSE @]
    IN IF shouldPlay /\ pl.hooked
       THEN [St1 EXCEPT !.L = scheduleRender(@)]
       ELSE St1

\* variant: restartLoop arms the next tick whatever render found
restartLoop_Always(L, rendered) ==
    scheduleRender([L EXCEPT !.rafId = 0,
                             !.rafPending = FALSE,
                             !.orphans = IF L.rafPending THEN @ + 1 ELSE @])

\* restartLoop; a callback that is still pending when rafId is cleared stays
\* armed
restartLoop(L, rendered) ==
    LET L1 == [L EXCEPT !.rafId = 0,
                        !.rafPending = FALSE,
                        !.orphans = IF L.rafPending THEN @ + 1 ELSE @]
    IN IF rendered THEN scheduleRender(L1) ELSE [L1 EXCEPT !.prevTime = 0]

\* the way renderFrame draws an image of width imageWidth into player pl:
\* putImageData, drawImage from the buffer canvas, or drawImage from the
\* canvas of the player painted before (prev)
PaintHow(pl, imageWidth, prev) ==
    IF imageWidth = pl.width THEN "raw"
    ELSE IF prev = 0 THEN "buffer"
    ELSE "scaled"

\* the application's listener of player p runs: target.dispose(), for a
\* target in the group of p; unregisterPlayer finds p left in the group
runListener(R, p) ==
    LET q == R.players[p].listener.target
        k == R.registry[R.players[p].id]
    IN IF q # 0 /\ ~R.players[q].disposed
       THEN [R EXCEPT !.players[q] = [disposeFields(@) EXCEPT !.hooked = FALSE],
                      !.players[p].listener.fired = TRUE,
                      !.items[k].players = SelectSeq(@, LAMBDA x : x # q)]
       ELSE R

\* the drawing of renderFrame: paint records the number of paints of the
\* player (MaxPaints stands for that many or more), the way the image was
\* drawn and the player painted before it in the same pass; a positive paint
\* budget is decremented
drawFrame(R, p, imageWidth, prev) ==
    [R EXCEPT !.players[p].paint =
                  [n |-> IF @.n < MaxPaints THEN @.n + 1 ELSE @.n,
                   how |-> PaintHow(R.players[p], imageWidth, prev),
                   src |-> prev],
              !.maxPlayerRender = IF @ > 0 THEN @ - 1 ELSE @]

\* the end of renderFrame: player.frame = frame, 'rendered' for the first
\* paint, pause() and 'end' for a finished player
setFrame(R, p, frame, isInitial) ==
    LET R1 == [R EXCEPT !.players[p].frame = frame]
        R2 == IF isInitial
              THEN runListener([R1 EXCEPT !.players = emit(@, p, "rendered")], p)
              ELSE R1
    IN IF isFinished(R2.players[p])
       THEN runListener([R2 EXCEPT !.players = emit(playerPause(@, p), p, "end")], p)
       ELSE R2

\* variant: renderFrame emits 'rendered' at every paint
renderFrame_AlwaysRendered(R, p, frame, imageWidth, prev) ==
    LET shouldRender == R.maxPlayerRender = -1 \/ R.maxPlayerRender > 0
                        \/ R.players[p].frame = -1
    IN setFrame(IF shouldRender THEN drawFrame(R, p, imageWidth, prev) ELSE R,
                p, frame, TRUE)

\* variant: renderFrame returns at once when the paint budget is used up
renderFrame_SkipPlayer(R, p, frame, imageWidth, prev) ==
    LET isInitial == R.players[p].frame = -1
        shouldRender == R.maxPlayerRender = -1 \/ R.maxPlayerRender > 0 \/ isInitial
    IN IF shouldRender
       THEN setFrame(drawFrame(R, p, imageWidth, prev), p, frame, isInitial)
       ELSE R

\* renderFrame; R.maxPlayerRender is the paint budget
renderFrame(R, p, frame, imageWidth, prev) ==
    LET isInitial == R.players[p].frame = -1
        shouldRender == R.maxPlayerRender = -1 \/ R.maxPlayerRender > 0 \/ isInitial
    IN setFrame(IF shouldRender THEN drawFrame(R, p, imageWidth, prev) ELSE R,
                p, frame, isInitial)

\* the loop of renderGroup over the players in list from index i on, prev
\* being prevRendered
RECURSIVE renderPlayers(_, _, _, _, _, _)
renderPlayers(R, list, i, frame, imageWidth, prev) ==
    IF i > Len(list) THEN R
    ELSE IF isPlaying(R.players[list[i]]) /\ shouldRenderPlayer(R.players[list[i]], frame)
         THEN renderPlayers(renderFrame(R, list[i], frame, imageWidth, prev),
                            list, i + 1, frame, imageWidth, list[i])
         ELSE renderPlayers(R, list, i + 1, frame, imageWidth, prev)

\* renderGroup
renderGroup(R, id, frame, imageWidth) ==
    LET k == R.registry[id]
    IN IF k # 0
       THEN renderPlayers(R, R.items[k].players, 1, frame, imageWidth, 0)
       ELSE R

\* variant: the frame cache is never read
getCachedFrame_Never(R, req) == {}

\* getCachedFrame: the cache entries that can serve the request
getCachedFrame(R, req) ==
    LET k == R.registry[req.id]
    IN IF k = 0 THEN {}
       ELSE {c \in R.items[k].frameCache : c.frame = req.frame /\ c.width >= req.width}

\* setCachedFrame
setCachedFrame(R, id, frame, imageWidth) ==
    LET k == R.registry[id]
    IN IF k # 0 /\ R.items[k].totalFrames # -1
       THEN [R EXCEPT !.items[k].frameCache =
                {c \in @ : c.frame # frame} \cup {[frame |-> frame, width |-> imageWidth]}]
       ELSE R

\* the value of a % b when b is 0
NaN == -2

\* a % b of JavaScript for a >= 0, b >= 0
JsMod(a, b) == IF b = 0 THEN NaN ELSE a % b

\* Math.min
Min(a, b) == IF a < b THEN a ELSE b

\* the frame toFrameRequest computes for a player with the given loop flag and
\* total frame count, frameTime and elapsed in clock units; Math.floor,
\* % and Math.min of NaN are NaN
toFrame(loop, totalFrames, frameTime, elapsed) ==
    LET frame == elapsed \div frameTime
    IN IF elapsed = NaN THEN NaN
       ELSE IF loop THEN JsMod(frame, totalFrames - 1)
       ELSE Min(frame, totalFrames - 1)

\* toFrameRequest, elapsed in clock units
toFrameRequest(pl, elapsed) ==
    [id |-> pl.id,
     width |-> pl.width,
     frame |-> toFrame(pl.loop, pl.totalFrames, FrameTime, elapsed)]

\* renderFrameResponse
renderFrameResponse(R, payload) ==
    IF R.registry[payload.id] # 0
    THEN renderGroup(IF config.cacheFrames
                     THEN setCachedFrame(R, payload.id, payload.frame, payload.width)
                     ELSE R,
                     payload.id, payload.frame, payload.width)
    ELSE R

\* workerPayload.get(worker) / set / push: the map keeps insertion order
AddRequest(payload, w, req) ==
    IF \E i \in 1..Len(payload) : payload[i].w = w
    THEN [i \in 1..Len(payload) |->
            IF payload[i].w = w
            THEN [payload[i] EXCEPT !.frames = Append(@, req)]
            ELSE payload[i]]
    ELSE Append(payload, [w |-> w, frames |-> <<req>>])

\* the body of registry.forEach in render, for the live item k
renderItem(A, k, time) ==
    LET item == A.R.items[k]
        playing == SelectSeq(item.players, LAMBDA p : isPlaying(A.R.players[p]))
    IN IF item.worker # 0 /\ playing # <<>>
       THEN LET first == A.R.players[playing[1]]
                offset == JsMod(item.frame, lastFrame(first))
                start == IF item.start = 0 \/ item.start = NaN
                         THEN (IF offset = NaN THEN NaN ELSE time - offset * FrameTime)
                         ELSE item.start
                req == toFrameRequest(first, IF start = NaN THEN NaN ELSE time - start)
                cached == getCachedFrame(A.R, req)
                R1 == [A.R EXCEPT !.items[k].start = start]
                R2 == IF cached # {}
                      THEN renderGroup(R1, req.id, req.frame,
                                       (CHOOSE c \in cached : TRUE).width)
                      ELSE R1
            IN [R |-> [R2 EXCEPT !.items[k].frame = req.frame],
                payload |-> IF cached = {} /\ shouldRenderFrame(R1, req.id, req.frame)
                            THEN AddRequest(A.payload, item.worker, req)
                            ELSE A.payload,
                rendered |-> TRUE]
       ELSE [A EXCEPT !.R.items[k].start = 0]

\* registry.forEach in render: the entries in insertion order
RECURSIVE renderItems(_, _, _)
renderItems(A, k, time) ==
    IF k > Len(A.R.items) THEN A
    ELSE renderItems(IF A.R.registry[A.R.items[k].id] = k
                     THEN renderItem(A, k, time) ELSE A,
                     k + 1, time)

\* workerPayload.forEach in render: one 'render' request per worker
RECURSIVE sendRenders(_, _, _, _)
sendRenders(S, payload, i, parts) ==
    IF i > Len(payload) THEN [S |-> S, parts |-> parts]
    ELSE sendRenders(send(S, payload[i].w, "render", 0), payload, i + 1,
                     Append(parts, [rid |-> Len(S.futures) + 1,
                                    frames |-> payload[i].frames]))

\* render(time)
render(St, time) ==
    LET R0 == [St.R EXCEPT !.maxPlayerRender =
                  IF config.maxRender # 0 THEN config.maxRender ELSE -1]
        A == renderItems([R |-> R0, payload |-> <<>>, rendered |-> FALSE], 1, time)
        St1 == [St EXCEPT !.R = A.R, !.L.prevTime = time]
        sent == sendRenders(St1.S, A.payload, 1, <<>>)
    IN IF A.payload # <<>>
       THEN [St1 EXCEPT !.S = sent.S,
                        !.L.dispatches = Append(@, [parts |-> sent.parts])]
       ELSE [St1 EXCEPT !.L = restartLoop(@, A.rendered)]

\* the frames the worker's render returns for a request: those of an instance
\* it has created, with a frame inside the movie
WorkerFrames(St, w, frames) ==
    SelectSeq(frames, LAMBDA r :
        /\ r.frame >= 0 /\ r.frame < MovieFrames(r.id)
        /\ \E f \in handled \ faulted :
              /\ St.S.futures[f].name = "create"
              /\ St.S.futures[f].w = w
              /\ St.S.futures[f].owner # 0
              /\ St.R.items[St.S.futures[f].owner].id = r.id)

\* payload.frames.forEach(frame => renderFrameResponse(frame))
RECURSIVE paintFrames(_, _, _)
paintFrames(R, frames, i) ==
    IF i > Len(frames) THEN R
    ELSE paintFrames(renderFrameResponse(R, frames[i]), frames, i + 1)

\* variant: a rejected request makes Promise.all fail, nothing is painted
RECURSIVE paintParts_AllOrNothing(_, _, _)
paintParts_AllOrNothing(St, parts, i) ==
    IF i > Len(parts) THEN St
    ELSE IF \E j \in 1..Len(parts) : St.S.futures[parts[j].rid].state # "resolved"
         THEN St
         ELSE paintParts_AllOrNothing(
                  [St EXCEPT !.R = paintFrames(@, WorkerFrames(St, St.S.futures[parts[i].rid].w,
                                                               parts[i].frames), 1)],
                  parts, i + 1)

\* resp.forEach in the callback of Promise.all: a rejected request counts as
\* { frames: [] }
RECURSIVE paintParts(_, _, _)
paintParts(St, parts, i) ==
    IF i > Len(parts) THEN St
    ELSE LET fut == St.S.futures[parts[i].rid]
             frames == IF fut.state = "resolved"
                       THEN WorkerFrames(St, fut.w, parts[i].frames)
                       ELSE <<>>
         IN paintParts([St EXCEPT !.R = paintFrames(@, frames, 1)], parts, i + 1)

\* every request of the dispatch is settled
Settled(St, d) ==
    \A i \in 1..Len(d.parts) : St.S.futures[d.parts[i].rid].state # "pending"

\* the callbacks of Promise.all(promises) in render that are ready to run;
\* a dispatch whose callback has run is dropped
RECURSIVE Settle(_, _)
Settle(St, n) ==
    IF n > Len(St.L.dispatches) THEN St
    ELSE LET d == St.L.dispatches[n]
         IN IF Settled(St, d)
            THEN LET St1 == paintParts(St, d.parts, 1)
                 IN Settle([St1 EXCEPT !.L = restartLoop([@ EXCEPT !.dispatches =
                                                             RemoveAt(@, n)], TRUE)],
                           n)
            ELSE Settle(St, n + 1)

\* the state after a handler and the promise callbacks it made ready
SetState(St) ==
    LET T == Settle(St, 1)
    IN /\ SetPool(T.S)
       /\ SetReg(T.R)
       /\ SetLoop(T.L)
       /\ allocCount' = T.allocs
       /\ releaseCount' = T.releases

\* ------------------------------------------------------------- actions

\* what registerPlayer finds for the id of a new player: no entry, or the
\* entry of a group that is loading, creating or mounted
JoinedAs(id) ==
    IF registry[id] = 0 THEN "first" ELSE items[registry[id]].stage

\* createPlayer(options); joined is a record of what registerPlayer found
CreatePlayerAs(limit, id, width, loop, how) ==
    /\ Len(players) < limit
    /\ LET p == Len(players) + 1
           player == [id |-> id, width |-> width, loop |-> loop, paused |-> FALSE,
                      frame |-> -1, totalFrames |-> -1, disposed |-> FALSE,
                      hooked |-> FALSE, emitted |-> NoEvents,
                      joined |-> how, listener |-> NoListener,
                      paint |-> [n |-> 0, how |-> "none", src |-> 0]]
           St0 == [State EXCEPT !.R.players = Append(@, player)]
           St1 == registerPlayer(St0, p)
       IN SetState([St1 EXCEPT !.R.players[p].hooked = TRUE])
    /\ UNCHANGED <<now, faulted, config, call, dupes, rounds, legacy, urlLoaded, handled, clientRefs>>

\* createPlayer(options), nothing recorded
CreatePlayer(limit, id, width, loop) ==
    CreatePlayerAs(limit, id, width, loop, "")

\* createPlayer(options) with the record of what registerPlayer found
CreatePlayerJoined(limit, id, width, loop) ==
    CreatePlayerAs(limit, id, width, loop, JoinedAs(id))

\* player.resize(width, height, dpr) on a player that is in use
Resize(p, width) ==
    /\ ~players[p].disposed
    /\ players[p].width # width
    /\ SetReg(playerResize(RegState, p, width))
    /\ UNCHANGED <<now, faulted, config, call, dupes, rounds, legacy, poolVars, urlLoaded, handled, clientRefs, allocCount,
                   releaseCount,
                   loopVars>>

\* player.dispose()
Dispose(p) ==
    /\ ~players[p].disposed
    /\ SetState(playerDispose(State, p))
    /\ UNCHANGED <<now, faulted, config, call, dupes, rounds, legacy, urlLoaded, handled, clientRefs>>

\* disposePlayer(id) for an id that has a registry entry
DisposeId(id) ==
    /\ registry[id] # 0
    /\ SetState(disposePlayerById(State, id))
    /\ UNCHANGED <<now, faulted, config, call, dupes, rounds, legacy, urlLoaded, handled, clientRefs>>

\* player.on('rendered', f).on('end', f) by the application, f being
\* () => q.dispose() for another player q of the same id
Listen(p, q) ==
    /\ ~players[p].disposed
    /\ ~players[q].disposed
    /\ p # q
    /\ players[p].id = players[q].id
    /\ players[p].listener = NoListener
    /\ players' = [players EXCEPT ![p].listener.target = q]
    /\ UNCHANGED <<now, faulted, config, call, dupes, rounds, legacy, poolVars, urlLoaded, handled, clientRefs,
                   allocCount, releaseCount, registry, items, maxPlayerRender,
                   loopVars>>

\* player.play()
PlayerPlay(p) ==
    /\ ~players[p].disposed
    /\ SetState(playerPlay(State, p))
    /\ UNCHANGED <<now, faulted, config, call, dupes, rounds, legacy, urlLoaded, handled, clientRefs>>

\* player.pause()
PlayerPause(p) ==
    /\ ~players[p].disposed
    /\ ~players[p].paused
    /\ players' = playerPause(players, p)
    /\ UNCHANGED <<now, faulted, config, call, dupes, rounds, legacy, poolVars, urlLoaded, handled, clientRefs,
                   allocCount, releaseCount, registry, items, maxPlayerRender,
                   loopVars>>

\* play()
GlobalPlay ==
    /\ SetLoop(scheduleRender([LoopState EXCEPT !.paused = FALSE]))
    /\ UNCHANGED <<now, faulted, config, call, dupes, rounds, legacy, poolVars, urlLoaded, handled, clientRefs,
                   allocCount, releaseCount, regVars>>

\* pause(): cancelAnimationFrame(rafId) cancels the callback of that handle
\* if it has not run yet
GlobalPause ==
    /\ SetLoop([LoopState EXCEPT !.paused = TRUE,
                                 !.rafPending = FALSE,
                                 !.rafId = 0,
                                 !.prevTime = 0])
    /\ UNCHANGED <<now, faulted, config, call, dupes, rounds, legacy, poolVars, urlLoaded, handled, clientRefs,
                   allocCount, releaseCount, regVars>>

\* the browser runs the callback of the handle held in rafId: render(time),
\* for the times up to TimeOrigin + limit
TickUntil(dt, limit) ==
    /\ rafPending
    /\ now + dt <= TimeOrigin + limit
    /\ now' = now + dt
    /\ SetState(render([State EXCEPT !.L.rafPending = FALSE], now + dt))
    /\ UNCHANGED <<faulted, config, call, dupes, rounds, legacy, urlLoaded, handled, clientRefs>>

Tick(dt) == TickUntil(dt, MaxTime)

\* the state St reached at clock value time, written with the clock at
\* TimeOrigin: render uses prevTime and item.start only in differences with
\* the clock, and the frame toFrameRequest computes from elapsed = time -
\* start, floor(elapsed / frameTime) % lastFrame or min(.., lastFrame), is the
\* same for elapsed and elapsed - period once elapsed >= 2 * period, where
\* period = lastFrame * frameTime
Rebase(St, time) ==
    LET startOf(item) ==
            LET elapsed == time - item.start
                period == (item.totalFrames - 1) * FrameTime
            IN IF item.start = 0 \/ item.start = NaN THEN item.start
               ELSE IF period > 0 /\ elapsed >= 2 * period
                    THEN TimeOrigin - (period + (elapsed % period))
                    ELSE TimeOrigin - elapsed
    IN [St EXCEPT !.R.items = [k \in DOMAIN St.R.items |->
                                 [St.R.items[k] EXCEPT !.start = startOf(St.R.items[k])]],
                  !.L.prevTime = IF @ = 0 THEN 0 ELSE TimeOrigin - (time - @)]

\* the browser runs the callback of the handle held in rafId, and every
\* worker answers the 'render' request of that tick before anything else
\* happens: render(time), then the callback of Promise.all. The round trip
\* leaves the pool as it was except for seq and for the record of the
\* requests kept in futures, which this action does not advance
TickAnswered(dt) ==
    /\ rafPending
    /\ dispatches = <<>>
    /\ now' = TimeOrigin
    /\ LET St0 == [State EXCEPT !.L.rafPending = FALSE]
           St1 == render(St0, now + dt)
           St2 == [St1 EXCEPT !.S.futures = [f \in DOMAIN St1.S.futures |->
                      IF f > Len(St0.S.futures)
                      THEN [St1.S.futures[f] EXCEPT !.state = "resolved"]
                      ELSE St1.S.futures[f]]]
           St3 == Settle(St2, 1)
       IN SetState(Rebase([St3 EXCEPT !.S = St0.S], now + dt))
    /\ UNCHANGED <<faulted, config, call, dupes, rounds, legacy, urlLoaded, handled, clientRefs>>

\* the browser runs a callback armed earlier whose handle rafId lost
OrphanTick(dt) ==
    /\ orphans > 0
    /\ now + dt <= TimeOrigin + MaxTime
    /\ now' = now + dt
    /\ SetState(render([State EXCEPT !.L.orphans = @ - 1], now + dt))
    /\ UNCHANGED <<faulted, config, call, dupes, rounds, legacy, urlLoaded, handled, clientRefs>>

\* getMovie(movie) resolves for item k
MovieLoaded(k) ==
    /\ items[k].movie = "pending"
    /\ LET St1 == [State EXCEPT !.R.items[k].movie = "loaded"]
       IN SetState(IF ReadyToCreate(St1, k) THEN sendCreate(St1, k) ELSE St1)
    /\ UNCHANGED <<now, faulted, config, call, dupes, rounds, legacy, urlLoaded, handled, clientRefs>>

\* getMovie(movie) rejects for item k
MovieFailed(k) ==
    /\ items[k].movie = "pending"
    /\ items' = [items EXCEPT ![k].movie = "failed"]
    /\ UNCHANGED <<now, faulted, config, call, dupes, rounds, legacy, poolVars, urlLoaded, handled, clientRefs, allocCount,
                   releaseCount, registry, players, maxPlayerRender,
                   loopVars>>

\* a direct caller of the pool: allocWorker()
ClientAlloc(limit) ==
    /\ allocCount < limit
    /\ LET w == AllocResult(PoolState)
       IN /\ SetPool(allocWorker(PoolState))
          /\ clientRefs' = IF w \in DOMAIN clientRefs
                           THEN [clientRefs EXCEPT ![w] = @ + 1]
                           ELSE clientRefs @@ (w :> 1)
    /\ allocCount' = allocCount + 1
    /\ UNCHANGED <<now, faulted, config, call, dupes, rounds, legacy, urlLoaded, handled, releaseCount, regVars,
                   loopVars>>

\* a direct caller of the pool: releaseWorker(instance), once per reference
ClientRelease(w) ==
    /\ clientRefs[w] > 0
    /\ SetPool(releaseWorker(PoolState, w))
    /\ clientRefs' = [clientRefs EXCEPT ![w] = @ - 1]
    /\ releaseCount' = releaseCount + 1
    /\ UNCHANGED <<now, faulted, config, call, dupes, rounds, legacy, urlLoaded, handled, allocCount, regVars,
                   loopVars>>

\* a direct caller of the pool: instance.send(name, payload)
ClientSend(w, name) ==
    /\ Len(futures) < MaxRequests
    /\ SetPool(send(PoolState, w, name, 0))
    /\ UNCHANGED <<now, faulted, config, call, dupes, rounds, legacy, urlLoaded, handled, clientRefs, allocCount, releaseCount,
                   regVars,
                   loopVars>>

\* getWorkerUrl() resolves: the callback of attachWorker runs for every
\* instance allocated so far
UrlLoad ==
    /\ ~urlLoaded
    /\ urlLoaded' = TRUE
    /\ proc' = [w \in DOMAIN proc |-> IF proc[w] = "none" THEN "starting" ELSE proc[w]]
    /\ listening' = [w \in DOMAIN listening |-> proc[w] = "none" \/ listening[w]]
    /\ UNCHANGED <<now, faulted, config, call, dupes, rounds, legacy, workerPool, workerId, refs, worker, deferred, seq,
                   requests, futures, terminated, posted, handled, clientRefs,
                   allocCount, releaseCount, regVars,
                   loopVars>>

\* variant: the 'init' handler attaches without looking at the pool
InitMessage_AlwaysAttach(S, w) ==
    attach([S EXCEPT !.listening[w] = FALSE, !.proc[w] = "running"], w)

\* attachWorker.onMessage: the pool state after the 'init' message
InitMessage(S, w) ==
    LET S1 == [S EXCEPT !.listening[w] = FALSE, !.proc[w] = "running"]
    IN IF InPool(S1, w)
       THEN attach(S1, w)
       ELSE fail([S1 EXCEPT !.terminated[w] = @ + 1], w)

\* the process posts { type: 'init' } (worker.ts, onRuntimeInitialized)
ProcInit(w) ==
    /\ proc[w] = "starting"
    /\ listening[w]
    /\ SetState(SendCreates([State EXCEPT !.S = InitMessage(@, w)], w, 1))
    /\ UNCHANGED <<now, faulted, config, call, dupes, rounds, legacy, urlLoaded, handled, clientRefs>>

\* attachWorker.onError: the process reports an error while starting
ProcError(w) ==
    /\ proc[w] = "starting"
    /\ listening[w]
    /\ SetPool(fail([PoolState EXCEPT !.listening[w] = FALSE, !.proc[w] = "failed"], w))
    /\ UNCHANGED <<now, faulted, config, call, dupes, rounds, legacy, urlLoaded, handled, clientRefs, allocCount, releaseCount,
                   regVars,
                   loopVars>>

\* messages posted to the process and not answered yet
Inbox(w) == SelectSeq(posted[w], LAMBDA m : m.rid \notin handled)

\* the controller's side of a response { seq, payload } of process w: onMessage,
\* then the callback of the request it resolved
Response(St, w, sq, payload) ==
    LET S1 == onMessage(St.S, w, sq, payload)
        done == {f \in DOMAIN S1.futures :
                    /\ St.S.futures[f].state = "pending"
                    /\ S1.futures[f].state = "resolved"
                    /\ S1.futures[f].owner # 0}
        St1 == [St EXCEPT !.S = S1]
    IN IF done = {} THEN St1 ELSE createResponse(St1, CHOOSE f \in done : TRUE)

\* the worker's message handler answers the i-th request of its inbox; the
\* response carries the request's seq, and the payload is known by the request
\* it answers. A worker process handles its messages in the order they were
\* posted: the specifications take i = 1
ProcRespond(w, i) ==
    /\ proc[w] = "running"
    /\ terminated[w] = 0
    /\ i \in 1..Len(Inbox(w))
    /\ LET m == Inbox(w)[i]
       IN /\ handled' = handled \cup {m.rid}
          /\ IF worker[w]
             THEN SetState(Response(State, w, m.seq, m.rid))
             ELSE UNCHANGED <<poolVars, regVars, allocCount, releaseCount,
                   loopVars>>
    /\ UNCHANGED <<now, faulted, config, call, dupes, rounds, legacy, urlLoaded, clientRefs>>

\* a message that repeats the seq of a request already answered reaches
\* onMessage of the instance, whose listener is still installed
DuplicateResponse(w, i) ==
    /\ dupes < MaxDupes
    /\ worker[w]
    /\ i \in 1..Len(posted[w])
    /\ posted[w][i].rid \in handled \ faulted
    /\ dupes' = dupes + 1
    /\ SetState(Response(State, w, posted[w][i].seq, posted[w][i].rid))
    /\ UNCHANGED <<now, faulted, config, call, rounds, legacy, urlLoaded, handled, clientRefs>>

\* the names whose handler runs code outside a try block
FaultNames == {"create", "dispose"}

\* the worker's message handler throws while it handles a request: no response
\* is posted and the Worker object gets an 'error' event; attachWorker removed
\* its 'error' listener in cleanUp, so no code of the controller runs
ProcFault(w, i) ==
    /\ proc[w] = "running"
    /\ terminated[w] = 0
    /\ i \in 1..Len(Inbox(w))
    /\ Inbox(w)[i].name \in FaultNames
    /\ handled' = handled \cup {Inbox(w)[i].rid}
    /\ faulted' = faulted \cup {Inbox(w)[i].rid}
    /\ UNCHANGED <<now, config, call, dupes, rounds, legacy, poolVars, urlLoaded, clientRefs, allocCount,
                   releaseCount, regVars, loopVars>>

\* the module state after loading: empty pool, no request made
\* no call of toFrameRequest is recorded
NoCall == [loop |-> FALSE, totalFrames |-> 0, frameTime |-> 0, elapsed |-> 0,
           frame |-> 0, done |-> FALSE]

\* the module state after loading, but for the registry
InitRest ==
    /\ workerPool = <<>>
    /\ workerId = 1
    /\ refs = <<>>
    /\ worker = <<>>
    /\ deferred = <<>>
    /\ seq = <<>>
    /\ requests = <<>>
    /\ futures = <<>>
    /\ urlLoaded = FALSE
    /\ proc = <<>>
    /\ listening = <<>>
    /\ terminated = <<>>
    /\ posted = <<>>
    /\ handled = {}
    /\ faulted = {}
    /\ clientRefs = <<>>
    /\ allocCount = 0
    /\ releaseCount = 0
    /\ items = <<>>
    /\ players = <<>>
    /\ maxPlayerRender = -1
    /\ paused = FALSE
    /\ rafId = 0
    /\ rafPending = FALSE
    /\ orphans = 0
    /\ prevTime = 0
    /\ dispatches = <<>>
    /\ now = TimeOrigin
    /\ dupes = 0
    /\ rounds = 0
    /\ legacy = [players |-> <<>>, instances |-> [id \in Ids |-> <<>>],
                 workers |-> <<>>]

\* the module state after loading
InitState ==
    /\ InitRest
    /\ registry = [id \in MovieIds |-> 0]

\* the module state after loading; toFrameRequest has not been called
InitPoolState ==
    /\ InitState
    /\ call = NoCall

\* updateConfig() was called once, before the first player, with positive limits
Init ==
    /\ config \in [maxWorkers : 1..MaxMaxWorkers,
                   playersPerWorker : 1..MaxPlayersPerWorker,
                   cacheFrames : {DefaultCacheFrames}]
    /\ InitPoolState

\* the default configuration
InitDefault ==
    /\ config = [maxWorkers |-> DefaultMaxWorkers,
                 playersPerWorker |-> DefaultPlayersPerWorker,
                 cacheFrames |-> DefaultCacheFrames,
                 maxRender |-> 0]
    /\ InitPoolState

\* updateConfig({ cacheFrames: true }) was called before the first player
InitCache ==
    /\ config = [maxWorkers |-> DefaultMaxWorkers,
                 playersPerWorker |-> DefaultPlayersPerWorker,
                 cacheFrames |-> TRUE,
                 maxRender |-> 0]
    /\ InitPoolState

ProcNext ==
    \/ UrlLoad
    \/ \E w \in Instances : ProcInit(w)
    \/ \E w \in Instances : ProcError(w)
    \/ \E w \in Instances : ProcRespond(w, 1)
    \/ \E w \in Instances : ProcFault(w, 1)

\* the pool under a direct caller of allocWorker / releaseWorker
NextPool ==
    \/ ClientAlloc(MaxAllocs)
    \/ \E w \in Instances : ClientRelease(w)
    \/ UrlLoad
    \/ \E w \in Instances : ProcInit(w)
    \/ \E w \in Instances : ProcError(w)

SpecPool == Init /\ [][NextPool]_vars

\* the request channel under a direct caller of the pool and of send
NextSend ==
    \/ ClientAlloc(MaxSendAllocs)
    \/ \E w \in Instances : ClientRelease(w)
    \/ \E w \in Instances : \E name \in RequestNames : ClientSend(w, name)
    \/ ProcNext

SpecSend == InitDefault /\ [][NextSend]_vars

\* the length of a run of requests that brings seq back to the value before
\* it; the run passes every other value once
RoundTrips == maxSeq - 1

\* a caller sends RoundTrips requests to the instance one after the other and
\* the process answers each of them: every send adds one to seq modulo maxSeq
\* and sets a table entry, every response deletes that entry again. The run is
\* taken when the process has handled all earlier messages and no entry of the
\* table carries a seq of the run; the requests of the run, all resolved, are
\* not kept in futures and posted
SendRounds(w) ==
    /\ rounds < MaxRounds
    /\ worker[w]
    /\ proc[w] = "running"
    /\ terminated[w] = 0
    /\ Inbox(w) = <<>>
    /\ \A r \in requests[w] :
          (r.seq + maxSeq - seq[w]) % maxSeq \notin 1..RoundTrips
    /\ seq' = [seq EXCEPT ![w] = (@ + RoundTrips) % maxSeq]
    /\ rounds' = rounds + 1
    /\ UNCHANGED <<now, faulted, config, call, dupes, legacy, urlLoaded, handled,
                   clientRefs, allocCount, releaseCount, regVars, loopVars,
                   workerPool, workerId, refs, worker, deferred, requests,
                   futures, proc, listening, terminated, posted>>

\* the pool under a direct caller that keeps an instance busy until seq wraps
NextSeq ==
    \/ NextSend
    \/ \E w \in Instances : SendRounds(w)

SpecSeq == InitDefault /\ [][NextSeq]_vars

\* the pool under a direct caller, with repeated responses
NextDup ==
    \/ NextSend
    \/ \E w \in Instances : \E i \in 1..MaxRequests : DuplicateResponse(w, i)

SpecDup == InitDefault /\ [][NextDup]_vars

\* the player module: players are created, resized and disposed, movies load,
\* worker processes start and answer
Next ==
    \/ \E id \in Ids : \E width \in Widths :
          CreatePlayerJoined(MaxPlayers, id, width, FALSE)
    \/ \E p \in DOMAIN players : \E width \in Widths : Resize(p, width)
    \/ \E p \in DOMAIN players : Dispose(p)
    \/ \E id \in Ids : DisposeId(id)
    \/ \E k \in DOMAIN items : MovieLoaded(k)
    \/ \E k \in DOMAIN items : MovieFailed(k)
    \/ ProcNext

Spec == InitDefault /\ [][Next]_vars

\* the events the browser delivers: a fetch settles, the worker script is
\* loaded, a worker process starts, fails or handles a message
Deliver ==
    \/ \E k \in DOMAIN items : MovieLoaded(k)
    \/ \E k \in DOMAIN items : MovieFailed(k)
    \/ ProcNext

\* the registry, with every event that can be delivered eventually delivered
SpecLive == InitDefault /\ [][Next]_vars /\ WF_vars(Deliver)

\* the render loop for the players of one id: they are created, played and paused, the loop is
\* paused and resumed, animation frames fire, workers start and answer
NextRender(id) ==
    \/ \E width \in Widths : \E loop \in BOOLEAN :
          CreatePlayer(MaxRenderPlayers, id, width, loop)
    \/ \E p \in DOMAIN players : PlayerPlay(p)
    \/ \E p \in DOMAIN players : PlayerPause(p)
    \/ GlobalPlay
    \/ GlobalPause
    \/ \E dt \in 1..MaxDelta : Tick(dt)
    \/ \E dt \in 1..MaxDelta : OrphanTick(dt)
    \/ \E k \in DOMAIN items : MovieLoaded(k)
    \/ UrlLoad
    \/ \E w \in Instances : ProcInit(w)
    \/ \E w \in Instances : ProcRespond(w, 1)

\* the calls of toFrameRequest: a mounted player and an elapsed time
Calls ==
    [loop : BOOLEAN, totalFrames : 1..MaxTotalFrames, frameTime : 1..MaxFrameTime,
     elapsed : 0..MaxElapsed, frame : {0}, done : {FALSE}]

InitFrame ==
    /\ config = [maxWorkers |-> DefaultMaxWorkers,
                 playersPerWorker |-> DefaultPlayersPerWorker,
                 cacheFrames |-> DefaultCacheFrames,
                 maxRender |-> 0]
    /\ InitState
    /\ call \in Calls

\* toFrameRequest(player, elapsed)
ToFrameRequest ==
    /\ ~call.done
    /\ call' = [call EXCEPT
                   !.frame = toFrame(call.loop, call.totalFrames, call.frameTime,
                                     call.elapsed),
                   !.done = TRUE]
    /\ UNCHANGED <<config, dupes, rounds, legacy, poolVars, urlLoaded, handled, faulted, clientRefs,
                   allocCount, releaseCount, regVars, loopVars, now>>

SpecFrame == InitFrame /\ [][ToFrameRequest]_vars

\* one group per worker
InitMulti ==
    /\ config = [maxWorkers |-> MaxMaxWorkers,
                 playersPerWorker |-> 1,
                 cacheFrames |-> DefaultCacheFrames,
                 maxRender |-> 0]
    /\ InitPoolState

\* groups on several workers that are rendered in the same tick and disposed
\* while a render request is in flight
NextMulti ==
    \/ \E id \in Ids : \E width \in Widths :
          CreatePlayer(MaxRenderPlayers, id, width, FALSE)
    \/ \E p \in DOMAIN players : Dispose(p)
    \/ \E dt \in 1..MaxDelta : Tick(dt)
    \/ \E k \in DOMAIN items : MovieLoaded(k)
    \/ UrlLoad
    \/ \E w \in Instances : ProcInit(w)
    \/ \E w \in Instances : ProcRespond(w, 1)

SpecMulti == InitMulti /\ [][NextMulti]_vars

\* the ids of the groups that share two workers of two groups each
StaleIds == 1..NumStaleIds

InitStale ==
    /\ config = [maxWorkers |-> MaxMaxWorkers,
                 playersPerWorker |-> MaxPlayersPerWorker,
                 cacheFrames |-> TRUE,
                 maxRender |-> 0]
    /\ InitRest
    /\ registry = [id \in StaleIds |-> 0]
    /\ call = NoCall

\* the page creates its players for the ids in turn, and again from the first
NextId == (Len(players) % NumStaleIds) + 1

\* groups are created and disposed while render requests are in flight
NextStale ==
    \/ CreatePlayer(MaxStalePlayers, NextId, 1, FALSE)
    \/ \E p \in DOMAIN players : Dispose(p)
    \/ now < TimeOrigin + MaxStaleTicks /\ Tick(1)
    \/ \E k \in DOMAIN items : MovieLoaded(k)
    \/ UrlLoad
    \/ \E w \in Instances : ProcInit(w)
    \/ \E w \in Instances : ProcRespond(w, 1)

SpecStale == InitStale /\ [][NextStale]_vars

\* one group that plays the two-frame movie
SpecRender == InitDefault /\ [][NextRender(1)]_vars

\* one group that plays the three-frame movie, with the frame cache on
SpecCache == InitCache /\ [][NextRender(2)]_vars

\* one group that plays the one-frame movie
SpecSingle == InitDefault /\ [][NextRender(0)]_vars

\* the players of one id are created, played and paused one by one while
\* animation frames fire one clock unit apart
NextResume(id) ==
    \/ \E loop \in BOOLEAN : CreatePlayer(MaxRenderPlayers, id, 1, loop)
    \/ \E p \in DOMAIN players : PlayerPlay(p)
    \/ \E p \in DOMAIN players : PlayerPause(p)
    \/ TickUntil(1, MaxResumeTime)
    \/ \E k \in DOMAIN items : MovieLoaded(k)
    \/ UrlLoad
    \/ \E w \in Instances : ProcInit(w)
    \/ \E w \in Instances : ProcRespond(w, 1)

SpecResume == InitDefault /\ [][NextResume(2)]_vars

\* ------------------------------------------- the earlier player module

\* workerPool of the earlier module: the workers not removed, in push order
legacyPool(L) == SelectSeq([w \in 1..Len(L.workers) |-> w],
                           LAMBDA w : L.workers[w].inPool)

\* allocWorker of the earlier module: the worker it returns, Len + 1 for a new
\* one
legacyAllocChoice(L) ==
    LET pool == legacyPool(L)
        free == {i \in 1..Len(pool) :
                    L.workers[pool[i]].players < DefaultPlayersPerWorker}
    IN IF free # {}
       THEN pool[CHOOSE i \in free : \A j \in free : i <= j]
       ELSE IF Len(pool) >= DefaultMaxWorkers /\ pool # <<>>
            THEN pool[CHOOSE i \in 1..Len(pool) :
                        \A j \in 1..Len(pool) :
                            \/ L.workers[pool[i]].players < L.workers[pool[j]].players
                            \/ (L.workers[pool[i]].players = L.workers[pool[j]].players
                                   /\ i <= j)]
            ELSE Len(L.workers) + 1

\* allocWorker of the earlier module; attachWorker leaves the url callback
\* pending (worker = "none")
legacyAllocWorker(L) ==
    LET w == legacyAllocChoice(L)
    IN IF w <= Len(L.workers)
       THEN [L EXCEPT !.workers[w].players = @ + 1]
       ELSE [L EXCEPT !.workers = Append(@, [players |-> 1, loaded |-> FALSE,
                                             worker |-> "none", inPool |-> TRUE,
                                             queue |-> <<>>, sent |-> <<>>])]

\* releaseWorker of the earlier module
legacyReleaseWorker(L, w) ==
    LET L1 == [L EXCEPT !.workers[w].players = @ - 1]
    IN IF L1.workers[w].players <= 0
       THEN [L1 EXCEPT !.workers[w].worker = IF @ = "live" THEN "terminated" ELSE @,
                       !.workers[w].inPool = FALSE]
       ELSE L1

\* sendMessage; a transmitted message records whether its key was disposed
sendMessage(L, w, key, type) ==
    IF L.workers[w].loaded /\ L.workers[w].worker = "live"
    THEN [L EXCEPT !.workers[w].sent =
            Append(@, [key |-> key, type |-> type,
                       late |-> L.players[key].disposes > 0])]
    ELSE [L EXCEPT !.workers[w].queue = Append(@, [key |-> key, type |-> type])]

\* Player.send
legacySend(L, p, type) ==
    IF L.players[p].worker # 0 THEN sendMessage(L, L.players[p].worker, p, type) ELSE L

\* new Player(options): addInstance and the worker it returns
addInstance(L, id) ==
    LET p == Len(L.players) + 1
        list == L.instances[id]
        shared == IF list # <<>> THEN L.players[list[1]].worker ELSE 0
        L1 == [L EXCEPT !.instances[id] = Append(@, p)]
        L2 == IF shared # 0 THEN L1 ELSE legacyAllocWorker(L1)
        w == IF shared # 0 THEN shared ELSE legacyAllocChoice(L1)
    IN [L2 EXCEPT !.players = Append(@, [id |-> id, worker |-> w, disposes |-> 0,
                                         movie |-> "pending"])]

\* removeInstance: the queues are purged only when the id has no entry
removeInstance(L, p) ==
    LET id == L.players[p].id
        left == SelectSeq(L.instances[id], LAMBDA q : q # p)
        L1 == [L EXCEPT !.instances[id] = left]
    IN IF L.instances[id] # <<>>
       THEN IF left = <<>>
            THEN [L |-> legacyReleaseWorker(L1, L.players[p].worker), last |-> TRUE]
            ELSE [L |-> L1, last |-> FALSE]
       ELSE [L |-> [L EXCEPT !.workers = [w \in DOMAIN L.workers |->
                      [L.workers[w] EXCEPT !.queue = SelectSeq(@, LAMBDA q : q.key # p)]]],
             last |-> TRUE]

\* Player.dispose of the earlier module
legacyDispose(L, p) ==
    LET r == removeInstance(L, p)
        L1 == IF r.last THEN legacySend(r.L, p, "dispose") ELSE r.L
    IN [L1 EXCEPT !.players[p].worker = 0, !.players[p].disposes = @ + 1]

\* initWorker: the queue is emptied and its messages are sent in order
RECURSIVE flushQueue(_, _, _, _)
flushQueue(L, w, queue, i) ==
    IF i > Len(queue) THEN L
    ELSE flushQueue(sendMessage(L, w, queue[i].key, queue[i].type), w, queue, i + 1)

initWorker(L, w) ==
    IF L.workers[w].inPool /\ L.workers[w].worker = "live"
    THEN flushQueue([L EXCEPT !.workers[w].loaded = TRUE, !.workers[w].queue = <<>>],
                    w, L.workers[w].queue, 1)
    ELSE L

\* the variables of the current module
modernVars == <<config, poolVars, urlLoaded, handled, faulted, clientRefs, allocCount,
                releaseCount, regVars, loopVars, now, call, dupes, rounds>>

\* createPlayer(options) of the earlier module
LegacyCreate(id) ==
    /\ Len(legacy.players) < MaxLegacyPlayers
    /\ legacy' = addInstance(legacy, id)
    /\ UNCHANGED modernVars

\* the promise of setupMovie resolves: the player sends 'create'
LegacyMovie(p) ==
    /\ legacy.players[p].movie = "pending"
    /\ legacy' = legacySend([legacy EXCEPT !.players[p].movie = "loaded"], p, "create")
    /\ UNCHANGED modernVars

\* player.resize(width, height) on a player in use: sendSize sends 'update';
\* one resize per player
LegacyResize(p) ==
    /\ legacy.players[p].disposes = 0
    /\ legacy.players[p].worker # 0
    /\ LET w == legacy.players[p].worker
           sized(msgs) == \E i \in 1..Len(msgs) : msgs[i].key = p /\ msgs[i].type = "update"
       IN ~sized(legacy.workers[w].queue) /\ ~sized(legacy.workers[w].sent)
    /\ legacy' = legacySend(legacy, p, "update")
    /\ UNCHANGED modernVars

\* player.dispose() of the earlier module, also on a disposed player
LegacyDispose(p) ==
    /\ legacy.players[p].disposes < MaxDisposes
    /\ legacy' = legacyDispose(legacy, p)
    /\ UNCHANGED modernVars

\* the callback of getWorkerUrl() in attachWorker of the earlier module
LegacyAttach(w) ==
    /\ legacy.workers[w].worker = "none"
    /\ legacy' = [legacy EXCEPT !.workers[w].worker =
                     IF legacy.workers[w].inPool THEN "live" ELSE "never"]
    /\ UNCHANGED modernVars

\* handleMessage for the 'init' message of the process of worker w
LegacyInit(w) ==
    /\ legacy.workers[w].worker = "live"
    /\ ~legacy.workers[w].loaded
    /\ legacy' = initWorker(legacy, w)
    /\ UNCHANGED modernVars

NextLegacy ==
    \/ \E id \in Ids : LegacyCreate(id)
    \/ \E p \in DOMAIN legacy.players : LegacyMovie(p)
    \/ \E p \in DOMAIN legacy.players : LegacyResize(p)
    \/ \E p \in DOMAIN legacy.players : LegacyDispose(p)
    \/ \E w \in DOMAIN legacy.workers : LegacyAttach(w)
    \/ \E w \in DOMAIN legacy.workers : LegacyInit(w)

SpecLegacy == InitDefault /\ [][NextLegacy]_vars

\* one group of up to MaxPlayers players that are created, resized and paused
\* while the two-frame movie plays
NextPaint ==
    \/ \E width \in Widths : CreatePlayer(MaxPlayers, 1, width, FALSE)
    \/ \E p \in DOMAIN players : \E width \in Widths : Resize(p, width)
    \/ \E p \in DOMAIN players : PlayerPause(p)
    \/ \E dt \in 1..MaxDelta : Tick(dt)
    \/ \E k \in DOMAIN items : MovieLoaded(k)
    \/ UrlLoad
    \/ \E w \in Instances : ProcInit(w)
    \/ \E w \in Instances : ProcRespond(w, 1)

SpecPaint == InitDefault /\ [][NextPaint]_vars

\* the value of config.maxRender set by updateConfig before the first player
MaxRender == 1

\* updateConfig({ maxRender: MaxRender }) was called before the first player
InitBudget ==
    /\ config = [maxWorkers |-> DefaultMaxWorkers,
                 playersPerWorker |-> DefaultPlayersPerWorker,
                 cacheFrames |-> DefaultCacheFrames,
                 maxRender |-> MaxRender]
    /\ InitPoolState

\* the group of SpecPaint under a paint budget
SpecBudget == InitBudget /\ [][NextPaint]_vars

\* the players of one id are created and disposed, by the application and by
\* its listeners, while the movie plays with the frame cache on
NextDispose(id) ==
    \/ \E width \in Widths : \E loop \in BOOLEAN :
          CreatePlayer(MaxRenderPlayers, id, width, loop)
    \/ \E p, q \in DOMAIN players : Listen(p, q)
    \/ \E p \in DOMAIN players : Dispose(p)
    \/ \E dt \in 1..MaxDelta : Tick(dt)
    \/ \E k \in DOMAIN items : MovieLoaded(k)
    \/ UrlLoad
    \/ \E w \in Instances : ProcInit(w)
    \/ \E w \in Instances : ProcRespond(w, 1)

SpecDispose == InitCache /\ [][NextDispose(1)]_vars

\* the animation frames of a page that stays open
Ticks == \E dt \in 1..MaxDelta : TickAnswered(dt)

\* the fetch of the movie, the worker script and a worker's messages
Answers ==
    \/ \E k \in DOMAIN items : MovieLoaded(k)
    \/ UrlLoad
    \/ \E w \in Instances : ProcInit(w)
    \/ \E w \in Instances : ProcRespond(w, 1)

\* looping and non-looping players of one id are created and play
NextEnd(id) ==
    \/ \E loop \in BOOLEAN : CreatePlayer(MaxRenderPlayers, id, 1, loop)
    \/ Ticks
    \/ Answers

\* the guard of Ticks
TickReady == rafPending /\ dispatches = <<>>

\* weak fairness of Ticks, with the guard of the action for ENABLED
TicksFair == []<><<Ticks>>_vars \/ []<>~TickReady

\* one group that plays the three-frame movie for ever: ticks keep firing,
\* fetches settle and workers keep answering
SpecEnd == InitDefault /\ [][NextEnd(2)]_vars /\ WF_vars(Answers) /\ TicksFair

\* ------------------------------------------------------------ properties

PoolSet(wp) == {wp[i] : i \in 1..Len(wp)}

AllocStep == allocCount' = allocCount + 1

\* refs after the step, 0 for an instance that does not exist
RefsOf(r, w) == IF w \in DOMAIN r THEN r[w] ELSE 0

\* the multiset of loads of the pooled workers, as a function load -> count
Loads == [n \in 0..MaxAllocs |-> Cardinality({w \in PoolSet(workerPool) : refs[w] = n})]

\* C1: with maxWorkers >= 1 the pool never holds more than config.maxWorkers
\* WorkerInstance objects, whatever allocWorker / releaseWorker calls were made
C1_PoolBounded == Len(workerPool) <= config.maxWorkers

C1_Witness ==
    /\ Len(workerPool) = config.maxWorkers
    /\ allocCount - releaseCount > config.maxWorkers * config.playersPerWorker

\* C2: allocWorker raises a worker's refs above playersPerWorker only when the
\* pool already holds maxWorkers workers; with the pool below maxWorkers and
\* every worker at capacity it creates a new worker instead
C2_Step ==
    /\ \A w \in DOMAIN refs' :
          (RefsOf(refs', w) > RefsOf(refs, w) /\ refs'[w] > config.playersPerWorker)
              => Len(workerPool) >= config.maxWorkers
    /\ ( /\ AllocStep
         /\ Len(workerPool) < config.maxWorkers
         /\ \A w \in PoolSet(workerPool) : refs[w] >= config.playersPerWorker )
       => /\ workerPool' = Append(workerPool, workerId)
          /\ refs'[workerId] = 1
          /\ \A w \in DOMAIN refs : refs'[w] = refs[w]

C2_OverflowOnlyAtMax == [][C2_Step]_vars

C2_Witness ==
    /\ Len(workerPool) = config.maxWorkers
    /\ \E w \in PoolSet(workerPool) : refs[w] = config.playersPerWorker + 1

\* C3: allocWorker prefers (a) an existing worker below playersPerWorker, else
\* (b) a new worker while the pool is below maxWorkers, else (c) the existing
\* worker with the lowest refs; with maxWorkers = 2 and playersPerWorker = 2
\* the loads are {2,2} after four allocations and {2,3} after five
C3_Step ==
    LET under == {w \in PoolSet(workerPool) : refs[w] < config.playersPerWorker}
        least == {w \in PoolSet(workerPool) :
                     \A v \in PoolSet(workerPool) : refs[v] >= refs[w]}
    IN AllocStep =>
         IF under # {}
         THEN /\ workerPool' = workerPool
              /\ \E w \in under : refs' = [refs EXCEPT ![w] = @ + 1]
         ELSE IF Len(workerPool) < config.maxWorkers
         THEN /\ workerPool' = Append(workerPool, workerId)
              /\ refs' = refs @@ (workerId :> 1)
         ELSE /\ workerPool' = workerPool
              /\ \E w \in least : refs' = [refs EXCEPT ![w] = @ + 1]

C3_Scenario ==
    (config.maxWorkers = 2 /\ config.playersPerWorker = 2 /\ releaseCount = 0)
        => /\ allocCount = 4 => (Len(workerPool) = 2 /\ Loads[2] = 2)
           /\ allocCount = 5 => (Len(workerPool) = 2 /\ Loads[2] = 1 /\ Loads[3] = 1)

C3_Preference == [][C3_Step /\ C3_Scenario']_vars

C3_Witness ==
    /\ config.maxWorkers = 2
    /\ config.playersPerWorker = 2
    /\ releaseCount = 0
    /\ allocCount = 5

\* C4: a worker leaves workerPool exactly in the step where its refs reach
\* zero, and its process is terminated exactly once: at the release when it is
\* attached, or on arrival of its 'init' message when it was released before
\* it was ready, in which case it is never attached
C4_Step ==
    \A w \in DOMAIN refs :
        LET removed == InPool(PoolState, w) /\ w \notin PoolSet(workerPool')
        IN /\ removed <=> (refs[w] > 0 /\ refs'[w] = 0)
           /\ w \notin PoolSet(workerPool) => w \notin PoolSet(workerPool')
           /\ terminated'[w] <= 1
           /\ (removed /\ worker[w]) => (terminated[w] = 0 /\ terminated'[w] = 1)
           /\ w \notin PoolSet(workerPool') => ~worker'[w]
           /\ (proc[w] = "starting" /\ proc'[w] = "running" /\ ~InPool(PoolState, w))
                 => (terminated'[w] = 1 /\ ~worker'[w])
           /\ (w \notin PoolSet(workerPool') /\ proc'[w] = "running")
                 => terminated'[w] = 1
           /\ w \in PoolSet(workerPool') => terminated'[w] = 0

Holders(w) == {k \in DOMAIN items : items[k].alloc = w /\ items[k].stage # "released"}

\* a createPlayer step for an id that has a registry entry
JoinStep ==
    /\ Len(players') = Len(players) + 1
    /\ registry[players'[Len(players')].id] # 0

\* C5: the players created under one id while its group exists are all in the
\* one registry entry of that id, one allocWorker call was made per entry and
\* each entry holds one worker reference; a player that joins an existing
\* group makes no allocWorker call
C5_State ==
    /\ allocCount = Len(items)
    /\ \A w \in DOMAIN refs : refs[w] = Cardinality(Holders(w))
    /\ \A id \in Ids : registry[id] # 0 =>
          /\ items[registry[id]].id = id
          /\ items[registry[id]].players # <<>>
          /\ registry[id] \in Holders(items[registry[id]].alloc)
    /\ \A p \in DOMAIN players : ~players[p].disposed =>
          /\ registry[players[p].id] # 0
          /\ \A k \in DOMAIN items :
                (\E i \in 1..Len(items[k].players) : items[k].players[i] = p)
                    <=> k = registry[players[p].id]
          /\ Cardinality({i \in 1..Len(items[registry[players[p].id]].players) :
                             items[registry[players[p].id]].players[i] = p}) = 1

C5_Step ==
    JoinStep => /\ allocCount' = allocCount
                /\ refs' = refs
                /\ workerPool' = workerPool
                /\ registry' = registry
                /\ Len(items') = Len(items)

C5_OneGroupOneReference == [][C5_Step /\ C5_State']_vars

C5_Witness ==
    /\ Len(players) = MaxPlayers
    /\ \A p \in DOMAIN players : players[p].id = 1 /\ ~players[p].disposed
    /\ Len(items[registry[1]].players) = MaxPlayers
    /\ items[registry[1]].worker # 0
    /\ \A p \in DOMAIN players : players[p].totalFrames = MovieFrames(1)
    /\ allocCount = 1
    /\ refs[items[registry[1]].worker] = 1

\* C6: in every reachable state each group's players list is ordered
\* non-increasing by width, also after a resize of a player that is not
\* mounted yet
C6_GroupsOrderedByWidth ==
    \A k \in DOMAIN items :
        \A i, j \in 1..Len(items[k].players) :
            i < j => players[items[k].players[i]].width >= players[items[k].players[j]].width

\* the request ids posted to a worker's process, in postMessage order
PostedIds(p, w) == [i \in 1..Len(p[w]) |-> p[w][i].rid]

\* a send step: one more future
SendStep == Len(futures') = Len(futures) + 1

\* no request reaches a process before the controller received its 'init'
C7_NoEarlyTransmit ==
    /\ \A w \in DOMAIN posted :
          Len(posted'[w]) > Len(posted[w]) => (proc[w] = "running" /\ worker[w])
    /\ \A w \in DOMAIN posted' : \A i \in 1..Len(posted'[w]) :
          ~futures'[posted'[w][i].rid].early

\* C7 (as claimed): no request is transmitted to a worker process before its
\* 'init' notification was received, and a request submitted earlier is
\* queued: it is kept pending, not failed
C7_Original_Step ==
    /\ C7_NoEarlyTransmit
    /\ (SendStep /\ futures'[Len(futures')].early)
          => futures'[Len(futures')].state = "pending"

C7_Amended_Step ==
    /\ C7_NoEarlyTransmit
    /\ (SendStep /\ futures'[Len(futures')].early)
          => /\ futures'[Len(futures')].state = "rejected"
             /\ futures'[Len(futures')].error = notMountedErr
             /\ posted' = posted
             /\ requests' = requests

EarlyIds(futs, w) ==
    LET ids == SelectSeq([i \in 1..Len(futs) |-> i],
                         LAMBDA f : futs[f].w = w /\ futs[f].early)
    IN ids

\* C8 (as claimed): when readiness arrives, the requests submitted before it
\* are all transmitted, in submission order, and none of them has failed
C8_Original_Step ==
    \A w \in DOMAIN proc :
        (proc[w] = "starting" /\ proc'[w] = "running" /\ worker'[w])
            => /\ PostedIds(posted', w) = EarlyIds(futures', w)
               /\ \A f \in DOMAIN futures' :
                     (futures'[f].w = w /\ futures'[f].early)
                         => futures'[f].state # "rejected"

C10_Step ==
    \A w \in DOMAIN refs :
        (refs[w] > 0 /\ refs'[w] = 0 /\ requests[w] # {})
            => /\ requests'[w] = {}
               /\ \A r \in requests[w] :
                     /\ futures[r.rid].state = "pending"
                     /\ futures'[r.rid].state = "rejected"
                     /\ futures'[r.rid].error = terminateErr

C10_ReleaseFailsAllPending == [][C10_Step]_vars

C10_Witness ==
    \E f, g \in DOMAIN futures :
        /\ f # g
        /\ futures[f].w = futures[g].w
        /\ futures[f].error = terminateErr
        /\ futures[g].error = terminateErr
        /\ requests[futures[f].w] = {}

\* C11: the promise returned by allocWorker is never resolved before the
\* worker's 'init' message has arrived; it resolves in the step where 'init'
\* arrives while the worker is still in the pool, and it is rejected in the
\* step where the starting process reports an error
C11_Step ==
    \A w \in DOMAIN deferred :
        /\ (deferred[w] # "resolved" /\ deferred'[w] = "resolved")
              => (proc[w] = "starting" /\ proc'[w] = "running")
        /\ (proc[w] = "starting" /\ proc'[w] = "running" /\ InPool(PoolState, w))
              => (deferred[w] = "pending" /\ deferred'[w] = "resolved")
        /\ (proc[w] = "starting" /\ proc'[w] = "failed")
              => deferred'[w] = "rejected"
        /\ deferred[w] # "pending" => deferred'[w] = deferred[w]

C11_State ==
    \A w \in DOMAIN deferred :
        /\ deferred[w] = "resolved" => proc[w] = "running"
        /\ proc[w] = "failed" => deferred[w] = "rejected"

C11_PromiseFollowsInit == [][C11_Step /\ C11_State']_vars

C11_Witness ==
    \E v, w \in DOMAIN deferred :
        /\ deferred[v] = "resolved" /\ refs[v] > 0
        /\ deferred[w] = "rejected" /\ proc[w] = "failed" /\ InPool(PoolState, w)

\* C12: when the process of a ready worker reports an error while requests
\* are pending, all pending futures of that worker fail
C12_Step ==
    \A f \in faulted' \ faulted :
        \A g \in DOMAIN futures :
            (futures[g].w = futures[f].w /\ futures[g].state = "pending")
                => futures'[g].state = "rejected"

C12_RuntimeErrorFailsPending == [][C12_Step]_vars

\* the group of item k cannot be mounted: its worker failed to start or its
\* movie could not be fetched
GroupFailed(k) ==
    \/ items[k].movie = "failed"
    \/ proc[items[k].alloc] = "failed"

\* C13: when worker startup or the fetch of the movie fails while a group is
\* created, the registering player gets an error notification
C13_FailureNotifies ==
    \A p \in DOMAIN players :
        LET k == registry[players[p].id]
        IN (~players[p].disposed /\ k # 0 /\ GroupFailed(k))
              => players[p].emitted.error >= 1

\* C14: a failed worker startup or movie fetch of one group aborts only that
\* group's mount; in particular a group registered afterwards acquires a
\* working worker: one whose process has not failed
C14_Step ==
    Len(items') = Len(items) + 1
        => proc'[items'[Len(items')].alloc] # "failed"

C14_OtherGroupsUnaffected == [][C14_Step]_vars

\* C15: disposePlayer(id) disposes every player registered under the id:
\* afterwards the registry has no entry for it, each of those players is
\* disposed and the group's worker reference has been released exactly once;
\* disposing one player or canvas leaves the other members registered
C15_Step ==
    \A id \in Ids :
        LET k == registry[id]
        IN /\ (k # 0 /\ registry'[id] = 0)
                => /\ \A i \in 1..Len(items[k].players) :
                         players'[items[k].players[i]].disposed
                   /\ releaseCount' = releaseCount + 1
                   /\ refs'[items[k].alloc] = refs[items[k].alloc] - 1
           /\ (k # 0 /\ registry'[id] = k)
                => \A i \in 1..Len(items[k].players) :
                      ~players'[items[k].players[i]].disposed
                          => items[k].players[i] \in SeqRange(items'[k].players)

C15_DisposeByIdReleasesOnce == [][C15_Step]_vars

\* the ids for which the step issues a render request to a worker
RequestedIds ==
    {id \in Ids :
        \E n \in 1..Len(dispatches') : \E i \in 1..Len(dispatches'[n].parts) :
            /\ dispatches'[n].parts[i].rid > Len(futures)
            /\ \E j \in 1..Len(dispatches'[n].parts[i].frames) :
                  dispatches'[n].parts[i].frames[j].id = id}

\* the players in the list of the registry entry of id
GroupOf(id) ==
    IF registry[id] = 0 THEN {} ELSE SeqRange(items[registry[id]].players)

\* the step paints player p
Painted(p) == p \in DOMAIN players /\ players'[p].paint.n > players[p].paint.n

\* the step paints the last frame into the non-looping player p
PaintedLast(p) ==
    /\ Painted(p)
    /\ ~players[p].loop
    /\ players'[p].frame = players'[p].totalFrames - 1

\* a player that is painted with its last frame is paused and emits 'end',
\* once; it is not painted and does not play afterwards
C16_EndOnce ==
    \A p \in DOMAIN players :
        /\ PaintedLast(p) => /\ players'[p].paused
                             /\ players[p].emitted.end = 0
                             /\ players'[p].emitted.end = 1
        /\ players'[p].emitted.end <= 1
        /\ (players'[p].emitted.end > players[p].emitted.end) => PaintedLast(p)
        /\ players[p].emitted.end = 1
              => /\ ~Painted(p)
                 /\ ~isPlaying(players'[p])
                 /\ players'[p].frame = players[p].frame

\* C16 (as claimed): once a player of a non-looping group was painted with the
\* last frame, it has emitted 'end' once and no render request is issued for
\* the group in any later tick
C16_Original_Step ==
    /\ C16_EndOnce
    /\ \A id \in Ids :
          ( /\ \A p \in GroupOf(id) : ~players[p].loop
            /\ \E p \in GroupOf(id) : players[p].emitted.end = 1 )
              => id \notin RequestedIds

C16_Original == [][C16_Original_Step]_vars

\* C16 (amended): a non-looping player painted with its last frame is paused
\* and emits 'end' exactly once, and is never painted or playing again; a
\* tick issues a render request for a group only if one of its players is
\* still playing (not paused and not at its last frame), so a group whose
\* players have all finished gets no further request, while a member that was
\* paused or joined later keeps the group playable
C16_Amended_Step ==
    /\ C16_EndOnce
    /\ \A id \in RequestedIds :
          \E p \in GroupOf(id) : isPlaying(players[p]) /\ players[p].emitted.end = 0

C16_Amended == [][C16_Amended_Step]_vars

C16_Witness ==
    \E p \in DOMAIN players :
        /\ players[p].emitted.end = 1
        /\ players[p].paused
        /\ now > TimeOrigin + MovieFrames(players[p].id) - 1
        /\ rafId = 0
        /\ dispatches = <<>>

\* C17: a player emits 'rendered' at its first paint, from a worker response
\* or from the frame cache, and never again: the notification has been emitted
\* exactly when the player has been painted, and at most once
C17_State ==
    \A p \in DOMAIN players :
        /\ players[p].emitted.rendered <= 1
        /\ (players[p].emitted.rendered = 1) <=> (players[p].paint.n > 0)

C17_Step ==
    \A p \in DOMAIN players :
        (players'[p].emitted.rendered > players[p].emitted.rendered)
            <=> (Painted(p) /\ players[p].paint.n = 0)

FirstPlaying(id) ==
    LET k == registry[id]
        playing == IF k = 0 THEN <<>>
                   ELSE SelectSeq(items[k].players, LAMBDA p : isPlaying(players[p]))
    IN IF k # 0 /\ items[k].worker # 0 /\ playing # <<>> THEN playing[1] ELSE 0

\* the step is a tick that renders the looping group of id
LoopTick(id) ==
    /\ now' > now
    /\ FirstPlaying(id) # 0
    /\ \A p \in GroupOf(id) : players[p].loop

\* C18 (as claimed): with cacheFrames on, a tick whose target frame of a
\* looping group is in the group's frame cache adds no request for the group
C18_Original_Step ==
    \A id \in Ids :
        ( /\ config.cacheFrames
          /\ LoopTick(id)
          /\ \E c \in items[registry[id]].frameCache :
                c.frame = items'[registry[id]].frame )
            => id \notin RequestedIds

C18_Original == [][C18_Original_Step]_vars

\* C18 (amended): with cacheFrames on, a tick whose target frame of a looping
\* group is cached with an image at least as wide as the first playing player
\* adds no request for the group, and paints the players that are playing and
\* not at that frame
C18_Amended_Step ==
    \A id \in Ids :
        ( /\ config.cacheFrames
          /\ LoopTick(id)
          /\ \E c \in items[registry[id]].frameCache :
                /\ c.frame = items'[registry[id]].frame
                /\ c.width >= players[FirstPlaying(id)].width )
            => /\ id \notin RequestedIds
               /\ \A p \in GroupOf(id) :
                     (isPlaying(players[p]) /\ players[p].frame # items'[registry[id]].frame)
                        => Painted(p) /\ players'[p].frame = items'[registry[id]].frame

C18_Amended == [][C18_Amended_Step]_vars

\* a player painted from the frame cache on the second pass of the loop
C18_Witness ==
    \E p \in DOMAIN players :
        /\ config.cacheFrames
        /\ players[p].loop
        /\ players[p].paint.n = 3
        /\ players[p].frame = 0
        /\ Len(SelectSeq(futures, LAMBDA f : f.name = "render")) = 2
        /\ Cardinality(items[registry[players[p].id]].frameCache) = 2

\* the positions in the list of the group of id of the players the step paints
PaintedAt(id) ==
    {i \in 1..Len(items[registry[id]].players) : Painted(items[registry[id]].players[i])}

\* the position of the player painted immediately before position i, 0 if none
PrevPainted(id, i) ==
    IF \E j \in PaintedAt(id) : j < i
    THEN CHOOSE j \in PaintedAt(id) : j < i /\ \A h \in PaintedAt(id) : h < i => h <= j
    ELSE 0

\* the width of the image of the worker response that the step paints for id
ImageWidth(id) ==
    LET reqs == {r \in UNION {UNION {SeqRange(dispatches[n].parts[i].frames) :
                                        i \in 1..Len(dispatches[n].parts)} :
                               n \in 1..Len(dispatches)} : r.id = id}
    IN IF reqs = {} THEN 0 ELSE (CHOOSE r \in reqs : TRUE).width

\* the paints of a step follow the list: the first painted player takes the
\* image itself, a later one the image if it has the size of its canvas and
\* else the scaled canvas of the player painted immediately before it
PaintChain(id) ==
    \A i \in PaintedAt(id) :
        LET list == items[registry[id]].players
            prev == PrevPainted(id, i)
        IN /\ players'[list[i]].paint.src = (IF prev = 0 THEN 0 ELSE list[prev])
           /\ players'[list[i]].paint.how =
                 (IF players[list[i]].width = ImageWidth(id) THEN "raw"
                  ELSE IF prev = 0 THEN "buffer" ELSE "scaled")

\* the players are painted from widest to narrowest
PaintWidest(id) ==
    \A i \in PaintedAt(id) :
        LET list == items[registry[id]].players
            prev == PrevPainted(id, i)
        IN prev # 0 => players[list[prev]].width >= players[list[i]].width

\* C19: when a frame is painted for a group the players are painted in list
\* order from widest to narrowest; the first painted player takes the raw
\* buffer and each later player whose size differs from it is drawn by scaling
\* the canvas of the player painted immediately before
C19_Step ==
    \A id \in Ids :
        (registry[id] # 0 /\ PaintedAt(id) # {}) => PaintChain(id) /\ PaintWidest(id)

C19_PaintWidestFirst == [][C19_Step]_vars

\* the part of C19 that does not depend on the order of the widths
C19_ChainStep ==
    \A id \in Ids : (registry[id] # 0 /\ PaintedAt(id) # {}) => PaintChain(id)

C19_PaintChain == [][C19_ChainStep]_vars

\* C20: after the global pause() no tick is armed or executed until the global
\* play(): while paused no animation-frame callback is pending and the render
\* function does not run (the clock of the model moves only when render runs)
C20_Step ==
    /\ paused => (~rafPending /\ orphans = 0 /\ rafId = 0)
    /\ (paused /\ paused') => now' = now

C20_PauseStopsTicks == [][C20_Step]_vars

\* C21: for every elapsed time e >= 0, frame duration d and total frame count
\* T >= 1, toFrameRequest computes floor(e/d) mod T for a looping player and
\* min(floor(e/d), T-1) for a non-looping player
C21_TargetFrame ==
    call.done =>
        call.frame = (IF call.loop
                      THEN (call.elapsed \div call.frameTime) % call.totalFrames
                      ELSE Min(call.elapsed \div call.frameTime, call.totalFrames - 1))

\* the dispatches whose Promise.all callback runs in the step
Completed ==
    {d \in SeqRange(dispatches) : d \notin SeqRange(dispatches')}

\* the frame requests of the parts of dispatch d whose request has the state st
FramesOf(d, st) ==
    UNION {SeqRange(d.parts[i].frames) :
             i \in {j \in 1..Len(d.parts) : futures'[d.parts[j].rid].state = st}}

\* C22: when the render request of one worker fails, the frames the other
\* workers returned in the same tick are still painted (every mounted player
\* of their groups that is playing and shows another frame), and the loop is
\* armed again
C22_Step ==
    \A d \in Completed :
        /\ ~paused => (rafId' = 1 /\ rafPending')
        /\ \A r \in FramesOf(d, "resolved") :
              \A p \in GroupOf(r.id) :
                  ( /\ registry'[r.id] # 0
                    /\ isPlaying(players[p])
                    /\ shouldRenderPlayer(players[p], r.frame) )
                      => Painted(p) /\ players'[p].frame = r.frame

C22_OtherWorkersPainted == [][C22_Step]_vars

\* the only tick so far sent a render request to two workers; one request
\* failed, the frame of the other was painted and the loop goes on
C22_Witness ==
    /\ now = TimeOrigin + 1
    /\ dispatches = <<>>
    /\ rafPending
    /\ \E f, g \in DOMAIN futures :
          /\ futures[f].name = "render" /\ futures[f].state = "rejected"
          /\ futures[g].name = "render" /\ futures[g].state = "resolved"
          /\ futures[f].w # futures[g].w
    /\ \E p \in DOMAIN players : players[p].paint.n = 1 /\ ~players[p].disposed

\* C23: a player is never repainted with the frame it already shows: a paint
\* changes the frame of the player, so a frame applied to a group a second time
\* (by a cache hit or by a second response) paints no player again
C23_Step ==
    \A p \in DOMAIN players :
        Painted(p) => /\ players'[p].frame # players[p].frame
                      /\ players'[p].paint.n = players[p].paint.n + 1

C23_NoRepaintOfSameFrame == [][C23_Step]_vars

\* two ticks had the same target frame: the first was painted from the worker
\* response, the second found the frame in the cache and painted nothing
C23_Witness ==
    \E p \in DOMAIN players :
        /\ config.cacheFrames
        /\ players[p].paint.n = 1
        /\ isPlaying(players[p])
        /\ players[p].frame = 0
        /\ items[registry[players[p].id]].frameCache # {}
        /\ now = TimeOrigin + 3
        /\ prevTime = now
        /\ Len(SelectSeq(futures, LAMBDA f : f.name = "render")) = 1

\* C24: a registry entry has at least one player, its players are not disposed
\* and carry its id, and every player that is not disposed is in the list of
\* the entry of its id, once
C24_GroupIffPlayers ==
    /\ \A id \in Ids :
          registry[id] # 0 =>
              /\ items[registry[id]].players # <<>>
              /\ items[registry[id]].id = id
              /\ \A p \in GroupOf(id) : ~players[p].disposed /\ players[p].id = id
    /\ \A p \in DOMAIN players :
          ~players[p].disposed =>
              /\ registry[players[p].id] # 0
              /\ Len(SelectSeq(items[registry[players[p].id]].players,
                               LAMBDA q : q = p)) = 1

\* a disposed and a live player of the same id, the entry of the id holds the
\* live one only, and another id has no entry
C24_Witness ==
    /\ \E p \in DOMAIN players : \E q \in DOMAIN players :
          /\ players[p].disposed /\ ~players[q].disposed
          /\ players[p].id = players[q].id
          /\ registry[players[p].id] # 0
          /\ GroupOf(players[p].id) = {q}
    /\ \E id \in Ids : registry[id] = 0
    /\ Len(items) >= 2

\* C25: when the last player of a group is unregistered, the worker reference
\* acquired for the group is eventually released, also when the group was not
\* mounted yet or its fetch or create request failed
C25_EventuallyReleased ==
    \A k \in 1..MaxPlayers :
        (k \in DOMAIN items /\ items[k].players = <<>>)
            ~> (k \in DOMAIN items /\ items[k].stage = "released")

\* C26: a tick adds a render request for a group only if one of its playable
\* players does not show the target frame yet; a paused player that shows
\* another frame does not cause a request
C26_Step ==
    \A id \in RequestedIds :
        \E p \in GroupOf(id) :
            /\ isPlaying(players[p])
            /\ players[p].frame # items'[registry[id]].frame

C26_NoRedundantRequest == [][C26_Step]_vars

\* the group the frame request r of the render request rid was made for has
\* been deleted: the id has no entry, or the create request of its entry was
\* sent after the render request
Stale(r, rid) ==
    \/ registry[r.id] = 0
    \/ \A f \in DOMAIN futures :
          (futures[f].name = "create" /\ futures[f].owner = registry[r.id]) => f > rid

\* C27: the response to a render request whose group was deleted while the
\* request was in flight paints no player, changes no player's frame and
\* writes into no cache, also when the id has been registered again
C27_Step ==
    \A d \in Completed :
        \A i \in 1..Len(d.parts) :
            \A r \in SeqRange(d.parts[i].frames) :
                Stale(r, d.parts[i].rid) =>
                    /\ \A p \in DOMAIN players :
                          players[p].id = r.id =>
                              ~Painted(p) /\ players'[p].frame = players[p].frame
                    /\ registry[r.id] # 0 =>
                          items'[registry[r.id]].frameCache = items[registry[r.id]].frameCache

C27_StaleResponseDiscarded == [][C27_Step]_vars

\* C28: every pending completion is settled at most once: resolve or reject
\* is called once on a request's deferred, an entry of a worker's table belongs
\* to a request that is still pending, and a repeated response or a dispose
\* after the response finds no entry
C28_SettledOnce ==
    /\ \A f \in DOMAIN futures :
          /\ futures[f].calls <= 1
          /\ (futures[f].calls = 0) <=> (futures[f].state = "pending")
    /\ \A w \in DOMAIN requests :
          \A r \in requests[w] : futures[r.rid].state = "pending"

\* a request was resolved, its response came a second time, and the instance
\* was disposed afterwards while another request was pending
C28_Witness ==
    /\ dupes = 1
    /\ \E f, g \in DOMAIN futures :
          /\ futures[f].w = futures[g].w
          /\ futures[f].state = "resolved" /\ futures[f].calls = 1
          /\ futures[g].state = "rejected" /\ futures[g].error = terminateErr
          /\ futures[g].calls = 1
          /\ terminated[futures[f].w] = 1

\* a step that sends a request sets the instance's seq to (seq + 1) % maxSeq
C29_SeqAssigned_Step ==
    \A w \in DOMAIN seq :
        (w \in DOMAIN seq' /\ Len(futures') = Len(futures) + 1
            /\ futures'[Len(futures')].w = w)
        => /\ seq'[w] = (seq[w] + 1) % maxSeq
           /\ futures'[Len(futures')].seq = seq'[w]

C29_SeqAssigned == [][C29_SeqAssigned_Step]_vars

\* C29: send assigns seq' = (seq + 1) mod 1_000_000 and no two pending requests
\* of one worker carry the same sequence number: every pending request sent
\* through an attached instance still owns the table entry of its seq
C29_SeqUnique ==
    /\ \A f, g \in DOMAIN futures :
          (f # g /\ futures[f].w = futures[g].w
             /\ futures[f].state = "pending" /\ futures[g].state = "pending")
          => futures[f].seq # futures[g].seq
    /\ \A f \in DOMAIN futures :
          futures[f].state = "pending"
          => [seq |-> futures[f].seq, rid |-> f] \in requests[futures[f].w]

\* C30: in every state where a group is mounted (its worker and its total
\* frame count are set), every player of the group is mounted with the group's
\* total frame count and got 'mount' once
C30_GroupMountedAllMounted ==
    \A id \in Ids :
        (registry[id] # 0 /\ items[registry[id]].worker # 0
            /\ items[registry[id]].totalFrames # -1)
        => \A p \in GroupOf(id) :
              /\ players[p].totalFrames = items[registry[id]].totalFrames
              /\ players[p].totalFrames # -1
              /\ players[p].emitted.mount = 1

\* a mounted group holds the player that registered it, a player that joined
\* while the create request was in flight and a player that joined after the
\* mount
C30_Witness ==
    \E id \in Ids :
        /\ registry[id] # 0
        /\ items[registry[id]].worker # 0
        /\ \E p, q, r \in GroupOf(id) :
              /\ players[p].joined = "first"
              /\ players[q].joined = "creating"
              /\ players[r].joined = "mounted"

\* some group is playable: it is mounted and one of its players is playing
Playable ==
    \E id \in Ids :
        /\ registry[id] # 0
        /\ items[registry[id]].worker # 0
        /\ \E p \in GroupOf(id) : isPlaying(players[p])

\* render ran in the step and sent nothing to a worker: the tick ends in it
TickWithoutDispatch == now' # now /\ dispatches' = dispatches

\* C31: at the end of each tick the next tick is armed if and only if at least
\* one group is still playable (and playback is not paused globally);
\* otherwise no tick is scheduled
C31_Original_Step ==
    (TickWithoutDispatch \/ Completed # {})
    => /\ rafPending' <=> (Playable' /\ ~paused')
       /\ rafId' # 0 <=> (Playable' /\ ~paused')

C31_Original == [][C31_Original_Step]_vars

\* C31 as the code has it: a tick that dispatched nothing arms the next one
\* if and only if a group was playable when the tick began, a tick that
\* dispatched arms the next one when its dispatch is complete, both only
\* while playback is not paused globally; otherwise the handle is cleared
C31_Amended_Step ==
    /\ TickWithoutDispatch
        => /\ rafPending' <=> (Playable /\ ~paused)
           /\ rafId' # 0 <=> (Playable /\ ~paused)
    /\ Completed # {}
        => /\ rafPending' <=> ~paused
           /\ rafId' # 0 <=> ~paused
    /\ (now' # now /\ dispatches' # dispatches) => Playable

C31_Amended == [][C31_Amended_Step]_vars

\* the loop went idle after the only player of a mounted group ended:
\* nothing is armed although playback is not paused
C31_Witness ==
    /\ ~paused /\ rafId = 0 /\ ~rafPending /\ orphans = 0
    /\ dispatches = <<>>
    /\ now > TimeOrigin
    /\ ~Playable
    /\ \E id \in Ids :
          /\ registry[id] # 0
          /\ items[registry[id]].worker # 0
          /\ \E p \in GroupOf(id) : players[p].emitted.end = 1

\* the ticks scheduled or in flight: the callbacks the browser still holds and
\* the dispatches whose requests are not all settled
TicksAlive == (IF rafPending THEN 1 ELSE 0) + orphans + Len(dispatches)

\* C32: a new tick never begins while a render dispatch of a previous tick is
\* unsettled, and at most one tick is scheduled or in flight at a time
C32_Step ==
    /\ now' # now => dispatches = <<>>
    /\ TicksAlive' <= 1

C32_OneTickAtATime == [][C32_Step]_vars

\* the step is a tick in which the group of id, whose start time was reset
\* while it had no playing player, plays again
Resumes(id) ==
    /\ now' # now
    /\ FirstPlaying(id) # 0
    /\ items[registry[id]].start = 0
    /\ registry'[id] = registry[id]

\* C33: the first target frame computed when a group plays again after it had
\* no playing player is the frame the group had reached, for every frame index
\* in 0..totalFrames-1
C33_Step ==
    \A id \in Ids :
        Resumes(id) => items'[registry[id]].frame = items[registry[id]].frame

C33_ResumeAtReachedFrame == [][C33_Step]_vars

\* the same for the frames below the last one
C33_BelowLast_Step ==
    \A id \in Ids :
        (Resumes(id) /\ items[registry[id]].frame < items[registry[id]].totalFrames - 1)
        => items'[registry[id]].frame = items[registry[id]].frame

C33_BelowLast == [][C33_BelowLast_Step]_vars

\* C34: when a player is unregistered while the worker of its group is not
\* ready, the creation and render requests queued for it are removed from the
\* worker's queue, so none of them is transmitted when the worker becomes ready
C34_Step ==
    \A p \in DOMAIN legacy.players :
        LET w == legacy.players[p].worker
        IN (legacy.players[p].disposes = 0 /\ legacy'.players[p].disposes = 1
              /\ ~legacy.workers[w].loaded)
           => \A i \in 1..Len(legacy'.workers[w].queue) :
                 legacy'.workers[w].queue[i].key = p
                 => legacy'.workers[w].queue[i].type \notin {"create", "update"}

C34_State ==
    \A w \in DOMAIN legacy.workers : \A i \in 1..Len(legacy.workers[w].sent) :
        legacy.workers[w].sent[i].type \in {"create", "update"}
        => ~legacy.workers[w].sent[i].late

C34_QueuePurged == [][C34_Step /\ C34_State']_vars

\* the step paints player p, which was painted before
Repainted(p) == Painted(p) /\ players[p].frame # -1

\* the paint budget the paints of the step start from: render resets it
Budget0 ==
    IF now' # now
    THEN (IF config.maxRender # 0 THEN config.maxRender ELSE -1)
    ELSE maxPlayerRender

\* the step runs renderGroup for id with frame f: some player of the group
\* takes frame f
Pass(id, f) == \E p \in GroupOf(id) : players[p].frame # f /\ players'[p].frame = f

\* renderGroup calls renderFrame for player p and frame f
Visited(p, f) == isPlaying(players[p]) /\ shouldRenderPlayer(players[p], f)

\* C35: with a paint budget N = config.maxRender > 0 at most N players are
\* repainted after a tick (a player that was never painted is painted
\* whatever is left), and every player renderGroup visits takes the new frame
\* and, at its last frame, is paused and emits 'end', painted or not
C35_Step ==
    /\ Budget0 >= 0 =>
          /\ Cardinality({p \in DOMAIN players : Repainted(p)}) <= Budget0
          /\ \A p \in DOMAIN players :
                Painted(p) => players'[p].paint.n = players[p].paint.n + 1
    /\ \A id \in Ids : \A f \in 0..MovieFrames(id) :
          Pass(id, f) =>
             \A p \in GroupOf(id) :
                Visited(p, f) =>
                   /\ players'[p].frame = f
                   /\ isFinished(players'[p]) =>
                         /\ players'[p].paused
                         /\ players'[p].emitted.end = players[p].emitted.end + 1

C35_BudgetKeepsBookkeeping == [][C35_Step]_vars

\* the budget is used up and a player has ended at the last frame with fewer
\* paints than a player of its group
C35_Witness ==
    \E p, q \in DOMAIN players :
        /\ config.maxRender > 0
        /\ maxPlayerRender = 0
        /\ players[p].id = players[q].id
        /\ players[p].frame = lastFrame(players[p])
        /\ players[q].frame = players[p].frame
        /\ players[p].emitted.end = 1
        /\ players[p].paint.n < players[q].paint.n
        /\ players[p].paint.n > 0

\* the step paints player p by scaling the canvas of another player
Scaled(p) == Painted(p) /\ players'[p].paint.how = "scaled"

\* the canvas p was scaled from was painted in the same step, with the frame
\* p now shows
SourcePainted(p) ==
    LET src == players'[p].paint.src
    IN Painted(src) /\ players'[src].frame = players'[p].frame

\* the canvas p was scaled from is at least as wide as p
SourceWide(p) == players'[players'[p].paint.src].width >= players'[p].width

C36_PaintedStep == \A p \in DOMAIN players : Scaled(p) => SourcePainted(p)

\* C36, the part about the frame of the source: a player painted by scaling
\* another player's canvas takes it from a canvas that was painted with the
\* same frame in the same pass
C36_SourcePainted == [][C36_PaintedStep]_vars

\* C36: a player painted by scaling another player's canvas takes it from a
\* canvas that was painted with the same frame in the same pass and is at
\* least as wide, also under a paint budget and with paused players
C36_Step == \A p \in DOMAIN players : Scaled(p) => SourcePainted(p) /\ SourceWide(p)

C36_ScaledFromPainted == [][C36_Step]_vars

\* C37: every frame request in a worker batch carries a frame f with
\* 0 <= f <= totalFrames - 1 of its group, whatever the frame count of the
\* movie (one frame included) and the loop flags of the players
C37_FrameInRange ==
    \A d \in 1..Len(dispatches) : \A i \in 1..Len(dispatches[d].parts) :
        \A j \in 1..Len(dispatches[d].parts[i].frames) :
            LET r == dispatches[d].parts[i].frames[j]
            IN registry[r.id] # 0 =>
                  /\ r.frame >= 0
                  /\ r.frame <= items[registry[r.id]].totalFrames - 1

C38_State == \A p \in DOMAIN players : players[p].disposed => players[p].frame = -1

C38_Step ==
    \A p \in DOMAIN players :
        players[p].disposed =>
           /\ ~Painted(p)
           /\ players'[p].emitted.rendered = players[p].emitted.rendered
           /\ players'[p].emitted.end = players[p].emitted.end

\* C38: a disposed player is not painted and emits neither 'rendered' nor
\* 'end', and its frame stays -1, whether it was disposed by the application
\* (with a render response in flight or a frame in the cache) or by a listener
\* that runs while its group is painted
C38_DisposedNeverPainted == [][C38_State' /\ C38_Step]_vars

\* a listener of a painted player has disposed a mounted player of the group
\* that was never painted, with frames in the cache
C38_Witness ==
    \E p, q \in DOMAIN players :
        /\ players[p].listener = [target |-> q, fired |-> TRUE]
        /\ players[p].paint.n > 0
        /\ players[q].disposed
        /\ players[q].paint.n = 0
        /\ players[q].emitted.mount = 1
        /\ q \notin GroupOf(players[p].id)
        /\ items[registry[players[p].id]].frameCache # {}

\* a player was disposed while a render response for its group was in flight,
\* and the response has been painted into the rest of the group
C38_WitnessInFlight ==
    \E p, q \in DOMAIN players :
        /\ players[q].disposed
        /\ players[q].paint.n = 1
        /\ players[p].id = players[q].id
        /\ ~players[p].disposed
        /\ players[p].paint.n = 2
        /\ players[p].listener = NoListener
        /\ players[q].emitted.mount = 1

\* the non-looping player p is mounted and not paused
Running(p) ==
    /\ p \in DOMAIN players
    /\ ~players[p].loop
    /\ players[p].totalFrames # -1
    /\ ~players[p].paused

\* player p was painted with its last frame, is paused and has emitted 'end'
Ended(p) ==
    /\ p \in DOMAIN players
    /\ players[p].frame = lastFrame(players[p])
    /\ players[p].paused
    /\ players[p].emitted.end >= 1

\* C39: a non-looping player that is mounted and not paused eventually
\* reaches its last frame, is paused and emits 'end', while ticks keep firing
\* and workers keep answering, also behind a looping player of its group
C39_EventuallyEnds == \A p \in 1..MaxRenderPlayers : Running(p) ~> Ended(p)

\* the 'create' requests for id that the process of worker w has handled
CreatesOf(w, id) ==
    {f \in handled \ faulted :
        /\ futures[f].name = "create"
        /\ futures[f].w = w
        /\ futures[f].owner # 0
        /\ items[futures[f].owner].id = id}

\* instances.get(id) in the process of worker w: the registry item whose movie
\* data the instance was built from, 0 if there is none. create keeps an
\* instance that exists, and the player module sends no 'dispose' request
workerInstance(w, id) ==
    IF CreatesOf(w, id) = {} THEN 0
    ELSE futures[CHOOSE f \in CreatesOf(w, id) : \A g \in CreatesOf(w, id) : f <= g].owner

\* a group of id was mounted on worker w
WasMounted(w, id) == \E j \in DOMAIN items : items[j].id = id /\ items[j].worker = w

\* a worker that is alive holds no instance for an id whose group, mounted on
\* that worker, was removed
C40_Removed ==
    \A w \in DOMAIN worker : \A id \in Ids :
        (registry[id] = 0 /\ worker[w] /\ WasMounted(w, id)) => workerInstance(w, id) = 0

\* the instance behind a mounted group was built from the movie data of that
\* group
C40_FreshData ==
    \A k \in DOMAIN items :
        (registry[items[k].id] = k /\ items[k].worker # 0)
            => workerInstance(items[k].worker, items[k].id) = k

\* C40: once a group is removed while its worker lives on for other groups,
\* the worker has no instance for the id, and a later group of the same id on
\* that worker gets an instance built from its own movie data
C40_NoStaleInstance == C40_Removed /\ C40_FreshData

====
